---------------------------- MODULE Spec2Model ----------------------------
(***************************************************************************)
(* Verification model of the wordle-ai suggestion engine.                  *)
(*                                                                         *)
(* The module holds several specifications over one set of variables:      *)
(*   SpecPure  - the feedback oracle (getFeedback) and the constraint      *)
(*               filter (matchesFeedback) applied to bounded inputs;       *)
(*   SpecSolve - the strategies' solve pipeline (filter, score, rank);     *)
(*   SpecPool  - ParallelGuessScorer.scoreGuesses on the WorkerPool;       *)
(*   SpecOrch  - the orchestrator worker and its compute workers;          *)
(*   SpecSvc   - WordleSolverService and the App effect that uses it.      *)
(*   SpecEntry - the orchestrator and the service, each on its own, for    *)
(*               requests made before initialization;                      *)
(*   SpecStream- the Go backend's SuggestStream and CloseStream handlers.  *)
(*   SpecHistory - filterCandidateWords and the strategies on a history,  *)
(*               its prefixes and its reorderings.                         *)
(* Each specification moves its own variables and leaves the others at     *)
(* their initial (idle) value.                                             *)
(*                                                                         *)
(* Words are 5-tuples of letter codes (1 = A, 2 = B, ...); comparing the   *)
(* tuples position by position is the lexicographic order of the words.    *)
(***************************************************************************)
EXTENDS Integers, Sequences, FiniteSets, TLC

\* ------------------------------------------------------------------------
\* Program constants
\* ------------------------------------------------------------------------

\* Word length: the loops of getFeedback and matchesFeedback run i = 0..4.
WordLen == 5

\* Number of suggestions kept by slice(0, 5).
TopK == 5

\* Rows of the game board.
GAME_ROWS == 6

\* Chunk divisor of scoreGuesses: Math.ceil(guesses.length / 4).
ChunkDivisor == 4

\* evaluateGuesses: beyond depth 1 a guess list longer than 5000 is cut to
\* its first 5000 words.
EvaluationLimit == 5000

\* ------------------------------------------------------------------------
\* Bounds of the model
\* ------------------------------------------------------------------------

\* Letters of the alphabet used by the oracle/filter specification.
NumLetters == 3

\* SOLVE messages the main thread sends to the orchestrator worker.
MaxRequests == 3

\* CANCEL messages the main thread sends to the orchestrator worker.
MaxCancels == 2

\* Calls of computeSuggestions (runs of the App effect).
MaxCalls == 3

\* Entries of the game history given to solve.
MaxHistory == 1

\* Largest navigator.hardwareConcurrency of the machines considered.
MaxCores == 3

\* Largest maxDepth of a suggest request.
MaxDepth == 2

\* Close requests sent to the backend.
MaxCloses == 2

\* Entries of the histories whose prefixes and reorderings are compared.
MaxEntries == 2

\* Suggestions events of one stream read by the client.
MaxSuggestions == 3

\* Runs of the App's fetch-suggestions effect.
MaxRuns == 3

\* Words submitted on the board.
MaxSubmits == 7

\* Calls of the cached filter, and the size its cache is created with.
MaxFilterCalls == 3
MaxCacheSize == 2

Letters == 1..NumLetters
Pos == 1..WordLen
Colors == {"gray", "yellow", "green"}
Words == [Pos -> Letters]
Feedbacks == [Pos -> Colors]

\* ------------------------------------------------------------------------
\* wordleUtils.ts
\* ------------------------------------------------------------------------

Min(a, b) == IF a < b THEN a ELSE b

\* Letters occurring in a word.
LettersOf(word) == {word[i] : i \in Pos}

\* countLetterInWord(word, letter)
countLetterInWord(word, letter) == Cardinality({i \in Pos : word[i] = letter})

\* A first pass whose loop stops one position early (i < 4).
GreenPassStopsEarly(answer, guess) ==
  [i \in Pos |->
     IF i < WordLen /\ answer[i] = guess[i] THEN "green" ELSE "gray"]

\* First pass of getFeedback: greens, every other tile still 'gray'.
GreenPass(answer, guess) ==
  [i \in Pos |-> IF answer[i] = guess[i] THEN "green" ELSE "gray"]

\* answerLetters after the first pass: the count of each letter in the
\* answer, minus one per green tile holding it.  A letter absent from the
\* Map reads as 0 (answerLetters.get(l) || 0).
AvailableAfterGreens(answer, guess) ==
  [l \in LettersOf(answer) \cup LettersOf(guess) |->
     countLetterInWord(answer, l)
       - Cardinality({i \in Pos : answer[i] = guess[i] /\ answer[i] = l})]

\* A second pass that colours a tile yellow whenever the letter occurs
\* anywhere in the answer, without consuming it.
SecondPassNoConsume(i, guess, feedback, available) ==
  [j \in Pos |->
     IF feedback[j] = "green" THEN "green"
     ELSE IF j >= i /\ available[guess[j]] > 0 THEN "yellow"
     ELSE feedback[j]]

\* Second pass of getFeedback, positions i..5 in order, threading the
\* remaining counts.
RECURSIVE SecondPass(_, _, _, _)
SecondPass(i, guess, feedback, available) ==
  IF i > WordLen THEN feedback
  ELSE IF feedback[i] = "green"
       THEN SecondPass(i + 1, guess, feedback, available)
       ELSE IF available[guess[i]] > 0
            THEN SecondPass(i + 1, guess,
                            [feedback EXCEPT ![i] = "yellow"],
                            [available EXCEPT ![guess[i]] = @ - 1])
            ELSE SecondPass(i + 1, guess,
                            [feedback EXCEPT ![i] = "gray"], available)

\* getFeedback(answer, guess)
getFeedback(answer, guess) ==
  SecondPass(1, guess, GreenPass(answer, guess),
             AvailableAfterGreens(answer, guess))

\* minRequiredCounts of matchesFeedback: per guess letter, the number of
\* its green or yellow tiles; a letter without one is absent (read as 0).
minRequiredCounts(guess, feedback) ==
  [l \in {guess[i] : i \in {j \in Pos : feedback[j] \in {"green", "yellow"}}} |->
     Cardinality({i \in Pos : guess[i] = l
                              /\ feedback[i] \in {"green", "yellow"}})]

\* A gray-tile test that forbids the gray letter anywhere in the word,
\* ignoring its green and yellow tiles.
GrayCheckNoDuplicates(word, guess, feedback) ==
  \A i \in Pos :
     feedback[i] = "gray" => countLetterInWord(word, guess[i]) = 0

\* The gray-tile test of matchesFeedback (maximum count).
GrayCheck(word, guess, feedback) ==
  LET minReq == minRequiredCounts(guess, feedback) IN
  \A i \in Pos :
     feedback[i] = "gray" =>
        LET letter == guess[i]
            maxCount == IF letter \in DOMAIN minReq THEN minReq[letter] ELSE 0
        IN ~(countLetterInWord(word, letter) > maxCount)

\* matchesFeedback(word, entry) with entry = (guess, feedback)
matchesFeedback(word, guess, feedback) ==
  LET minReq == minRequiredCounts(guess, feedback) IN
  /\ \A i \in Pos : ~(feedback[i] = "green" /\ word[i] # guess[i])
  /\ \A i \in Pos : ~(feedback[i] = "yellow" /\ word[i] = guess[i])
  /\ \A l \in DOMAIN minReq : ~(countLetterInWord(word, l) < minReq[l])
  /\ GrayCheck(word, guess, feedback)

\* A filter that tests the words against the last entry only (not the
\* program's filter; the monotonicity claim is checked to tell them apart).
FilterByLastEntry(history, wordList) ==
  SelectSeq(wordList,
            LAMBDA word :
              Len(history) = 0 \/
              matchesFeedback(word, history[Len(history)].word,
                              history[Len(history)].colors))

\* A filter that tests the words against the first entry only (not the
\* program's filter; the reordering claim is checked to tell them apart).
FilterByFirstEntry(history, wordList) ==
  SelectSeq(wordList,
            LAMBDA word :
              Len(history) = 0 \/
              matchesFeedback(word, history[1].word, history[1].colors))

\* filterCandidateWords(gameState, wordList): the words that match every
\* entry of the history, in list order.
filterCandidateWords(history, wordList) ==
  SelectSeq(wordList,
            LAMBDA word :
              \A e \in 1..Len(history) :
                 matchesFeedback(word, history[e].word, history[e].colors))

\* String.toLowerCase on one letter: codes 1..26 are A..Z, 27..52 a..z.
ToLowerCase(ch) == IF ch <= 26 THEN ch + 26 ELSE ch

\* word.toLowerCase().startsWith(prefix.toLowerCase())
StartsWith(word, prefix) ==
  /\ Len(prefix) <= Len(word)
  /\ \A i \in 1..Len(prefix) : ToLowerCase(word[i]) = ToLowerCase(prefix[i])

\* filterWordsByPrefix(words, prefix)
filterWordsByPrefix(words, prefix) ==
  IF prefix = <<>> THEN words
  ELSE SelectSeq(words, LAMBDA word : StartsWith(word, prefix))

\* ------------------------------------------------------------------------
\* guessScoring.worker.ts
\* ------------------------------------------------------------------------

RECURSIVE Pow(_, _)
Pow(b, e) == IF e = 0 THEN 1 ELSE b * Pow(b, e - 1)

\* A weight that counts every answer in every partition (not the program's
\* computation; the score range is checked to tell them apart).
WeightOfOverlappingPartitions(keys, guess, possibleAnswers) ==
  Pow(Pow(Len(possibleAnswers), Len(possibleAnswers)), Cardinality(keys))

\* Product of count^count over the feedback partitions.
RECURSIVE PartitionWeight(_, _, _)
PartitionWeight(keys, guess, possibleAnswers) ==
  IF keys = {} THEN 1
  ELSE LET key == CHOOSE k \in keys : TRUE
           count == Cardinality({a \in 1..Len(possibleAnswers) :
                                   getFeedback(possibleAnswers[a], guess) = key})
       IN Pow(count, count)
            * PartitionWeight(keys \ {key}, guess, possibleAnswers)

\* calculateInformationGain(guess, possibleAnswers).  With N answers and
\* partitions of sizes c, the gain is log2(N) - (1/N) * sum(c * log2(c))
\*   = log2(N) - log2(product(c^c)) / N.
\* The model keeps the exact value as the pair (n, weight) = (N, product
\* of c^c): for one N, a larger gain is a smaller weight.  (For the answer
\* counts of the model the floating-point sums have at most two distinct
\* non-zero terms, so equal exact gains are equal doubles.)
calculateInformationGain(guess, possibleAnswers) ==
  [kind |-> "gain",
   n |-> Len(possibleAnswers),
   weight |-> PartitionWeight(
                {getFeedback(possibleAnswers[a], guess) :
                   a \in 1..Len(possibleAnswers)},
                guess, possibleAnswers)]

\* Number.MAX_VALUE, the score of the only possible answer.
MAX_VALUE == [kind |-> "MAX_VALUE", n |-> 1, weight |-> 1]

\* a.score > b.score for two gains over the same answers.
ScoreGreater(a, b) == a.weight < b.weight

\* self.onmessage of the scoring worker: the scores of one chunk, in the
\* order of its guesses.
ScoreChunk(guesses, possibleAnswers) ==
  [i \in 1..Len(guesses) |->
     [word |-> guesses[i],
      score |-> calculateInformationGain(guesses[i], possibleAnswers)]]

\* ------------------------------------------------------------------------
\* parallelGuessScoring.ts
\* ------------------------------------------------------------------------

\* Math.ceil(a / b) for b > 0.
CeilDiv(a, b) == (a + b - 1) \div b

\* A split into chunks of one guess each.
ChunksOfOne(guesses) == [c \in 1..Len(guesses) |-> <<guesses[c]>>]

\* The chunks of scoreGuesses: slices of chunkSize guesses.
Chunks(guesses) ==
  LET chunkSize == CeilDiv(Len(guesses), ChunkDivisor)
      count == IF chunkSize = 0 THEN 0 ELSE CeilDiv(Len(guesses), chunkSize)
  IN [c \in 1..count |->
        SubSeq(guesses, (c - 1) * chunkSize + 1,
               Min(c * chunkSize, Len(guesses)))]

\* An insertion that puts x before the elements of equal score.
RECURSIVE InsertBeforeEqual(_, _)
InsertBeforeEqual(x, sorted) ==
  IF sorted = <<>> THEN <<x>>
  ELSE IF ScoreGreater(Head(sorted).score, x.score)
       THEN <<Head(sorted)>> \o InsertBeforeEqual(x, Tail(sorted))
       ELSE <<x>> \o sorted

\* Insertion of x into a list sorted by descending score, after the
\* elements of equal score: Array.prototype.sort is stable.
RECURSIVE InsertSorted(_, _)
InsertSorted(x, sorted) ==
  IF sorted = <<>> THEN <<x>>
  ELSE IF ScoreGreater(x.score, Head(sorted).score)
       THEN <<x>> \o sorted
       ELSE <<Head(sorted)>> \o InsertSorted(x, Tail(sorted))

\* allScores.sort((a, b) => b.score - a.score)
RECURSIVE SortByScore(_, _)
SortByScore(todo, sorted) ==
  IF todo = <<>> THEN sorted
  ELSE SortByScore(Tail(todo), InsertSorted(Head(todo), sorted))

\* The results of the chunks concatenated in completion order.
RECURSIVE MergeInCompletionOrder(_, _)
MergeInCompletionOrder(results, order) ==
  IF order = <<>> THEN <<>>
  ELSE results[Head(order)] \o MergeInCompletionOrder(results, Tail(order))

\* Concatenation of the results in chunk order: Promise.all keeps the order
\* of the promises, whatever the order in which they settled.
RECURSIVE MergeFrom(_, _)
MergeFrom(results, c) ==
  IF c > Len(results) THEN <<>>
  ELSE results[c] \o MergeFrom(results, c + 1)

\* The merge of scoreGuesses; 'order' is the order in which the chunks
\* completed, which the merge does not read.
MergeResults(results, order) == MergeFrom(results, 1)

\* scoreGuesses(guesses, possibleAnswers) when every chunk resolves.
scoreGuesses(guesses, possibleAnswers) ==
  LET chunks == Chunks(guesses)
      results == [c \in 1..Len(chunks) |-> ScoreChunk(chunks[c], possibleAnswers)]
  IN SortByScore(MergeResults(results, <<>>), <<>>)

\* ------------------------------------------------------------------------
\* strategies
\* ------------------------------------------------------------------------

\* What StrictGuessesStrategy.solve returns of the scores: all of them
\* (const suggestions = allScores).
StrictSuggestions(scores) == scores

\* What AllGuessesStrategy.solve returns of the scores:
\* allScores.slice(0, 5).
AllSuggestions(scores) == SubSeq(scores, 1, Min(TopK, Len(scores)))

\* A single-answer case that scores the answer like any other guess.
SolveFewAnswersScored(possibleAnswers) ==
  IF Len(possibleAnswers) = 0
  THEN [suggestions |-> <<>>, remainingAnswers |-> 0, scoringTasks |-> 0]
  ELSE [suggestions |->
          <<[word |-> possibleAnswers[1],
             score |-> calculateInformationGain(possibleAnswers[1],
                                                possibleAnswers)]>>,
        remainingAnswers |-> 1, scoringTasks |-> 0]

\* The part of solve the two strategies share: no possible answer, or one.
\* scoringTasks counts the chunks submitted to the worker pool.
SolveFewAnswers(possibleAnswers) ==
  IF Len(possibleAnswers) = 0
  THEN [suggestions |-> <<>>, remainingAnswers |-> 0, scoringTasks |-> 0]
  ELSE [suggestions |-> <<[word |-> possibleAnswers[1], score |-> MAX_VALUE]>>,
        remainingAnswers |-> 1, scoringTasks |-> 0]

\* StrictGuessesStrategy.solve(gameState, answersList, guessesList)
StrictGuessesSolve(history, answersList, guessesList) ==
  LET possibleAnswers == filterCandidateWords(history, answersList)
      validGuesses == filterCandidateWords(history, guessesList)
  IN IF Len(possibleAnswers) <= 1 THEN SolveFewAnswers(possibleAnswers)
     ELSE IF Len(validGuesses) = 0
     THEN [suggestions |-> <<>>, remainingAnswers |-> Len(possibleAnswers),
           scoringTasks |-> 0]
     ELSE [suggestions |->
             StrictSuggestions(scoreGuesses(validGuesses, possibleAnswers)),
           remainingAnswers |-> Len(possibleAnswers),
           scoringTasks |-> Len(Chunks(validGuesses))]

\* AllGuessesStrategy.solve(gameState, answersList, guessesList)
AllGuessesSolve(history, answersList, guessesList) ==
  LET possibleAnswers == filterCandidateWords(history, answersList)
  IN IF Len(possibleAnswers) <= 1 THEN SolveFewAnswers(possibleAnswers)
     ELSE [suggestions |->
             AllSuggestions(scoreGuesses(guessesList, possibleAnswers)),
           remainingAnswers |-> Len(possibleAnswers),
           scoringTasks |-> Len(Chunks(guessesList))]

\* ------------------------------------------------------------------------
\* Values of the worker protocol
\* ------------------------------------------------------------------------

\* null: the initial currentRequestId and currentComputeWorker.
Null == 0

\* undefined: the requestId of a message that carries none.
Undefined == -1

\* setSuggestion(null): no suggestion is displayed.
NoSuggestion == 0

\* ------------------------------------------------------------------------
\* State
\* ------------------------------------------------------------------------

VARIABLES
  \* oracle / filter specification
  pPhase,       \* "input" before the functions are applied, "done" after
  pAnswer,      \* the word scored against (answer, or candidate word)
  pGuess,       \* the guessed word
  pFeedback,    \* getFeedback(pAnswer, pGuess) once done
  pMatches      \* matchesFeedback(pAnswer, (pGuess, pFeedback)) once done

pureVars == <<pPhase, pAnswer, pGuess, pFeedback, pMatches>>

VARIABLES
  \* orchestrator worker (state: WorkerState) and its surroundings
  initialized,            \* state.initialized
  currentRequestId,       \* state.currentRequestId
  currentComputeWorker,   \* state.currentComputeWorker (index, or Null)
  computeWorkers,         \* every compute worker spawned so far, in order
  orchInbox,              \* main -> orchestrator messages not yet handled
  computeOut,             \* compute worker -> orchestrator messages in flight
  mainInbox,              \* messages the orchestrator posted to the main thread
  nextRid,                \* the next fresh requestId of the main thread
  initSent,               \* whether the main thread has sent INIT
  cancelsSent,            \* number of CANCEL messages sent so far
  accepted,               \* requestIds of the SOLVEs accepted (history)
  superseded,             \* requestIds preempted by a later SOLVE while
                          \* their result had not been forwarded (history)
  ignored,                \* requestIds whose result computeHandler ignored
                          \* (history)
  cancelled,              \* requestIds whose CANCEL was handled while they
                          \* were the current request (history)
  cancelsHandled,         \* per requestId: CANCEL messages handled while its
                          \* compute worker had not yet posted (history)
  afterCancel,            \* requestIds a message of which was forwarded
                          \* after their CANCEL was handled (history)
  failed,                 \* requestIds whose computation threw (history)
  spared                  \* requestIds that were current, their compute
                          \* worker running, when a CANCEL naming another
                          \* requestId was handled (history)

\* History variables of the orchestrator specification.
orchHistory == <<cancelled, cancelsHandled, afterCancel, failed, spared>>

orchVars ==
  <<initialized, currentRequestId, currentComputeWorker, computeWorkers,
    orchInbox, computeOut, mainInbox, nextRid, initSent, cancelsSent,
    accepted, superseded, ignored, orchHistory>>

VARIABLES
  \* WordleSolverService, its solver worker and the App effect
  svcWorker,      \* this.worker is set
  initPromise,    \* this.initPromise: "null", "pending", "resolved", "rejected"
  initHandler,    \* initHandler is registered on the worker
  handlers,       \* calls whose handler is registered on the worker, in
                  \* registration order
  calls,          \* per call of computeSuggestions: the state of the promise
                  \* it returned and the value it settled with
  timers,         \* calls whose timeout timer is armed
  toWorker,       \* main -> solver worker messages not yet handled
  fromWorker,     \* solver worker -> main messages not yet delivered
  workerReady,    \* state.initialized of the solver worker
  suggestion,     \* the App's suggestion state: NoSuggestion, or the call
                  \* whose input the displayed result was computed from
  timedOut        \* calls rejected by their timeout (history)

svcVars ==
  <<svcWorker, initPromise, initHandler, handlers, calls, timers, toWorker,
    fromWorker, workerReady, suggestion, timedOut>>

VARIABLES
  \* compute worker: one SOLVE computation
  solvePhase,         \* "input" before the message is handled, "done" after
  answersList,        \* event.data.answersList
  guessesList,        \* event.data.guessesList
  gameState,          \* event.data.gameState.history: entries (word, colors)
  useStrictGuesses,   \* event.data.useStrictGuesses
  typedWord,          \* event.data.typedWord
  solveResult         \* the SolveResult posted with SOLVE_COMPLETE, and the
                      \* number of scoring tasks the strategy submitted

solveVars ==
  <<solvePhase, answersList, guessesList, gameState, useStrictGuesses,
    typedWord, solveResult>>

VARIABLES
  \* ParallelGuessScorer.scoreGuesses and its WorkerPool
  sgPhase,        \* "ready": not yet called; "running"; "resolved"; "rejected"
  sgGuesses,      \* the guesses argument
  sgAnswers,      \* the possibleAnswers argument
  sgResult,       \* the value the call resolved with
  poolSize,       \* this.poolSize
  taskQueue,      \* this.taskQueue: chunk indices not yet given to a worker
  activeWorkers,  \* this.activeWorkers
  workerTask,     \* per worker: the chunk it was last posted, or Null
  pendingTasks,   \* keys of this.pendingTasks
  promises,       \* per chunk: state of the promise execute returned
  chunkResults,   \* per chunk: the scores its promise resolved with
  finishOrder     \* chunks in the order their results were handled (history)

poolVars ==
  <<sgPhase, sgGuesses, sgAnswers, sgResult, poolSize, taskQueue,
    activeWorkers, workerTask, pendingTasks, promises, chunkResults,
    finishOrder>>

VARIABLES
  \* backend: one SuggestStream handler, its goroutines, CloseStream calls
  handlerPc,        \* position of the SuggestStream handler
  validPost,        \* the request is a POST with a decodable body
  noAnswers,        \* len(possibleAnswers) == 0 in Solve
  maxDepth,         \* req.MaxDepth
  depth,            \* loop variable of Solve
  frames,           \* SSE frames written to the response, in order
  activeStreams,    \* keys of the activeStreams map
  closeChanClosed,  \* close(closeChan) has run
  monitor,          \* the close monitor goroutine: "none", "started",
                    \* "waiting" (blocked on <-closeChan), "received", "done"
  ctxCancelled,     \* cancel() of the Solve context has been called
  solveReturned,    \* "none", "nil" (ran to completion), "ctxErr"
  closeRequests,    \* the CloseStream calls so far: streamId asked for,
                    \* position, channel looked up, whether the stream was
                    \* registered at the lookup, whether the send was taken
  guessCount,       \* len(igs.guessList)
  bestIndex,        \* position in guessList of the guess of highest gain
  ctxAtEntry,       \* the context when Solve was called: "none" (not yet
                    \* called), "live" or "cancelled" (history)
  lateFrames        \* depths whose suggestions frame was written after the
                    \* context had been cancelled (history)

strategyVars == <<guessCount, bestIndex, ctxAtEntry, lateFrames>>

streamVars ==
  <<handlerPc, validPost, noAnswers, maxDepth, depth, frames, activeStreams,
    closeChanClosed, monitor, ctxCancelled, solveReturned, closeRequests,
    strategyVars>>

VARIABLES
  \* the filter and the strategies applied to a history and its variants
  hPhase,    \* "input", "filtered" or "solved"
  hHistory,  \* gameState.history
  hPerm,     \* a reordering of the entries of hHistory
  hStrict,   \* useStrictGuesses
  hKept,     \* the words kept under each prefix of hHistory
  hSolved    \* the strategy's result for hHistory and for its reordering

histVars == <<hPhase, hHistory, hPerm, hStrict, hKept, hSolved>>

VARIABLES
  \* frontend client: processStream of one streamSuggestions call
  rdPc,         \* "idle", "refused" (no response body), "reading", "ended"
                \* (reader done) or "failed" (read rejected)
  rdChunks,     \* what reader.read() will still deliver: chunks of frames
  rdStreamId,   \* the local streamId ('' is Null)
  rdState,      \* activeStreamStates entry of the stream: "none", "active",
                \* "completed"
  rdCalls       \* callbacks and promise settlements so far, in order

readerVars == <<rdPc, rdChunks, rdStreamId, rdState, rdCalls>>

VARIABLES
  \* frontend App: the fetch-suggestions effect and its streams
  efStreams,    \* per effect run, its stream: "requested" (id not yet
                \* received), "open", "completed", "closed"
  streamIdRef   \* streamIdRef.current (a run index, or Null)

effectVars == <<efStreams, streamIdRef>>

VARIABLES
  \* App keyboard handler and useGameState
  isTyping,     \* isTyping
  bTypedWord,   \* typedWord
  bHistory      \* gameState.history (the words)

boardVars == <<isTyping, bTypedWord, bHistory>>

frontVars == <<readerVars, effectVars, boardVars>>

VARIABLES
  \* backend: CachedFilterCandidateWords
  cache,        \* the LRU cache: entries (key, value), least recent first
  filterCalls   \* the Filter calls so far: arguments and result

cacheVars == <<cache, filterCalls>>

backVars ==
  <<pureVars, orchVars, svcVars, solveVars, poolVars, streamVars, histVars>>

vars == <<pureVars, orchVars, svcVars, solveVars, poolVars, streamVars, histVars, frontVars, cacheVars>>

\* ------------------------------------------------------------------------
\* SpecPure: getFeedback and matchesFeedback on bounded inputs
\* ------------------------------------------------------------------------

\* Both functions only compare letters for equality, so renaming the
\* letters changes no result: the guess is drawn with its letters numbered
\* in order of first appearance, the other word from all words.
GuessWords ==
  {g \in Words : \A i \in Pos : \A l \in 1..(g[i] - 1) : \E j \in 1..(i - 1) : g[j] = l}

PureIdle ==
  /\ pPhase = "idle"
  /\ pAnswer = <<>>
  /\ pGuess = <<>>
  /\ pFeedback = <<>>
  /\ pMatches = FALSE

\* The orchestrator worker right after its module is loaded.
OrchIdle ==
  /\ initialized = FALSE
  /\ currentRequestId = Null
  /\ currentComputeWorker = Null
  /\ computeWorkers = <<>>
  /\ orchInbox = <<>>
  /\ computeOut = {}
  /\ mainInbox = <<>>
  /\ nextRid = 1
  /\ initSent = FALSE
  /\ cancelsSent = 0
  /\ accepted = {}
  /\ superseded = {}
  /\ ignored = {}
  /\ cancelled = {}
  /\ cancelsHandled = [r \in 1..MaxRequests |-> 0]
  /\ afterCancel = {}
  /\ failed = {}
  /\ spared = {}

\* The service singleton after construction, before the App has mounted.
SvcIdle ==
  /\ svcWorker = FALSE
  /\ initPromise = "null"
  /\ initHandler = FALSE
  /\ handlers = <<>>
  /\ calls = <<>>
  /\ timers = {}
  /\ toWorker = <<>>
  /\ fromWorker = <<>>
  /\ workerReady = FALSE
  /\ suggestion = NoSuggestion
  /\ timedOut = {}

\* No computation has been requested.
SolveIdle ==
  /\ solvePhase = "idle"
  /\ answersList = <<>>
  /\ guessesList = <<>>
  /\ gameState = <<>>
  /\ useStrictGuesses = FALSE
  /\ typedWord = <<>>
  /\ solveResult = [suggestions |-> <<>>, remainingAnswers |-> 0, scoringTasks |-> 0]

\* No scorer has been constructed.
PoolIdle ==
  /\ sgPhase = "idle"
  /\ sgGuesses = <<>>
  /\ sgAnswers = <<>>
  /\ sgResult = <<>>
  /\ poolSize = 0
  /\ taskQueue = <<>>
  /\ activeWorkers = {}
  /\ workerTask = <<>>
  /\ pendingTasks = {}
  /\ promises = <<>>
  /\ chunkResults = <<>>
  /\ finishOrder = <<>>

\* The backend before any request.
StreamIdle ==
  /\ handlerPc = "idle"
  /\ validPost = FALSE
  /\ noAnswers = FALSE
  /\ maxDepth = 0
  /\ depth = 0
  /\ frames = <<>>
  /\ activeStreams = {}
  /\ closeChanClosed = FALSE
  /\ monitor = "none"
  /\ ctxCancelled = FALSE
  /\ solveReturned = "none"
  /\ closeRequests = <<>>
  /\ guessCount = 0
  /\ bestIndex = 0
  /\ ctxAtEntry = "none"
  /\ lateFrames = {}

\* No stream is being read.
ReaderIdle ==
  /\ rdPc = "idle"
  /\ rdChunks = <<>>
  /\ rdStreamId = Null
  /\ rdState = "none"
  /\ rdCalls = <<>>

\* The App before its first effect run.
EffectIdle ==
  /\ efStreams = <<>>
  /\ streamIdRef = Null

\* The App before any key is pressed.
BoardIdle ==
  /\ isTyping = FALSE
  /\ bTypedWord = <<>>
  /\ bHistory = <<>>

FrontIdle == ReaderIdle /\ EffectIdle /\ BoardIdle

\* A new cached filter: NewCachedFilterCandidateWords.
CacheIdle ==
  /\ cache = <<>>
  /\ filterCalls = <<>>

\* No history under examination.
HistIdle ==
  /\ hPhase = "idle"
  /\ hHistory = <<>>
  /\ hPerm = <<>>
  /\ hStrict = FALSE
  /\ hKept = <<>>
  /\ hSolved = <<>>

PureInit ==
  /\ OrchIdle
  /\ SvcIdle
  /\ SolveIdle
  /\ PoolIdle
  /\ StreamIdle
  /\ HistIdle
  /\ FrontIdle
  /\ CacheIdle
  /\ pPhase = "input"
  /\ pAnswer \in Words
  /\ pGuess \in GuessWords
  /\ pFeedback = <<>>
  /\ pMatches = FALSE

\* The oracle scores the guess, then the filter tests the same word against
\* the recorded entry (filterCandidateWords with a one-entry history).
ApplyOracleAndFilter ==
  /\ pPhase = "input"
  /\ pPhase' = "done"
  /\ pFeedback' = getFeedback(pAnswer, pGuess)
  /\ pMatches' = matchesFeedback(pAnswer, pGuess, pFeedback')
  /\ UNCHANGED <<pAnswer, pGuess>>
  /\ UNCHANGED <<orchVars, svcVars, solveVars, poolVars, streamVars, histVars, frontVars, cacheVars>>

PureNext == ApplyOracleAndFilter

SpecPure == PureInit /\ [][PureNext]_vars

pDone == pPhase = "done"

\* ------------------------------------------------------------------------
\* SpecOrch: the orchestrator worker, its compute workers, the main thread
\* ------------------------------------------------------------------------

Rids == 1..MaxRequests

\* A terminate() that leaves the worker as it is (not the program's; the
\* claim on live compute workers is checked to tell them apart).
LeftRunning(workers, w) == workers

\* worker.terminate(): the worker is no longer live; a running worker is
\* aborted and posts nothing more.  One that has already posted keeps its
\* status; its message may still be in flight.
Terminated(workers, w) ==
  [workers EXCEPT ![w].status = IF @ = "running" THEN "terminated" ELSE @,
                  ![w].live = FALSE]

\* Whether a SOLVE_COMPLETE or ERROR carrying requestId r reached the main
\* thread.
TerminalMessages(r) ==
  {i \in 1..Len(mainInbox) :
     /\ mainInbox[i].type \in {"SOLVE_COMPLETE", "ERROR"}
     /\ mainInbox[i].requestId = r}

\* The main thread (the service) posts INIT.
MainSendInit ==
  /\ ~initSent
  /\ initSent' = TRUE
  /\ orchInbox' = Append(orchInbox, [type |-> "INIT", requestId |-> Undefined])
  /\ UNCHANGED <<initialized, currentRequestId, currentComputeWorker,
                 computeWorkers, computeOut, mainInbox, nextRid, cancelsSent,
                 accepted, superseded, ignored>>

  /\ UNCHANGED orchHistory
\* The main thread posts SOLVE with a fresh requestId.
MainSendSolve ==
  /\ nextRid <= MaxRequests
  /\ nextRid' = nextRid + 1
  /\ orchInbox' = Append(orchInbox, [type |-> "SOLVE", requestId |-> nextRid])
  /\ UNCHANGED <<initialized, currentRequestId, currentComputeWorker,
                 computeWorkers, computeOut, mainInbox, initSent, cancelsSent,
                 accepted, superseded, ignored>>

  /\ UNCHANGED orchHistory
\* The main thread posts CANCEL for a requestId it has used.
MainSendCancel ==
  /\ cancelsSent < MaxCancels
  /\ \E r \in 1..(nextRid - 1) :
        orchInbox' = Append(orchInbox, [type |-> "CANCEL", requestId |-> r])
  /\ cancelsSent' = cancelsSent + 1
  /\ UNCHANGED <<initialized, currentRequestId, currentComputeWorker,
                 computeWorkers, computeOut, mainInbox, nextRid, initSent,
                 accepted, superseded, ignored>>

  /\ UNCHANGED orchHistory
\* self.onmessage, INIT branch.
HandleInit ==
  /\ orchInbox # <<>>
  /\ Head(orchInbox).type = "INIT"
  /\ orchInbox' = Tail(orchInbox)
  /\ initialized' = TRUE
  /\ mainInbox' = Append(mainInbox,
                         [type |-> "INIT_COMPLETE", requestId |-> Undefined])
  /\ UNCHANGED <<currentRequestId, currentComputeWorker, computeWorkers,
                 computeOut, nextRid, initSent, cancelsSent, accepted,
                 superseded, ignored>>

  /\ UNCHANGED orchHistory
\* A SOLVE branch without the initialization test: the compute worker is
\* spawned although no word list was received.
HandleSolveUnchecked ==
  /\ orchInbox # <<>>
  /\ Head(orchInbox).type = "SOLVE"
  /\ ~initialized
  /\ orchInbox' = Tail(orchInbox)
  /\ computeWorkers' =
       Append(computeWorkers,
              [requestId |-> Head(orchInbox).requestId, status |-> "running",
               live |-> TRUE])
  /\ currentComputeWorker' = Len(computeWorkers) + 1
  /\ currentRequestId' = Head(orchInbox).requestId
  /\ UNCHANGED <<initialized, computeOut, mainInbox, nextRid, initSent,
                 cancelsSent, accepted, superseded, ignored>>
  /\ UNCHANGED orchHistory

\* self.onmessage, SOLVE branch before INIT: throws, and the catch posts
\* ERROR without a requestId.
HandleSolveNotInitialized ==
  /\ orchInbox # <<>>
  /\ Head(orchInbox).type = "SOLVE"
  /\ ~initialized
  /\ orchInbox' = Tail(orchInbox)
  /\ mainInbox' = Append(mainInbox,
                         [type |-> "ERROR", requestId |-> Undefined])
  /\ UNCHANGED <<initialized, currentRequestId, currentComputeWorker,
                 computeWorkers, computeOut, nextRid, initSent, cancelsSent,
                 accepted, superseded, ignored>>

  /\ UNCHANGED orchHistory
\* self.onmessage, SOLVE branch: terminate the previous compute worker,
\* record the requestId, spawn a compute worker and post it the request.
HandleSolve ==
  /\ orchInbox # <<>>
  /\ Head(orchInbox).type = "SOLVE"
  /\ initialized
  /\ LET rid == Head(orchInbox).requestId
         old == IF currentComputeWorker # Null
                THEN Terminated(computeWorkers, currentComputeWorker)
                ELSE computeWorkers
     IN /\ computeWorkers' =
             Append(old, [requestId |-> rid, status |-> "running",
                          live |-> TRUE])
        /\ currentComputeWorker' = Len(computeWorkers) + 1
        /\ currentRequestId' = rid
        /\ accepted' = accepted \cup {rid}
        /\ superseded' =
             IF /\ currentRequestId \in accepted
                /\ currentRequestId # rid
                /\ TerminalMessages(currentRequestId) = {}
             THEN superseded \cup {currentRequestId}
             ELSE superseded
  /\ orchInbox' = Tail(orchInbox)
  /\ UNCHANGED <<initialized, computeOut, mainInbox, nextRid, initSent,
                 cancelsSent, ignored>>

  /\ UNCHANGED orchHistory
\* A CANCEL test that ignores the requestId.
CancelAppliesToAny(rid) == currentComputeWorker # Null

\* The test of the CANCEL branch: the message names the current request
\* and a compute worker is held.
CancelApplies(rid) ==
  currentRequestId = rid /\ currentComputeWorker # Null

\* self.onmessage, CANCEL branch.
HandleCancel ==
  /\ orchInbox # <<>>
  /\ Head(orchInbox).type = "CANCEL"
  /\ orchInbox' = Tail(orchInbox)
  /\ IF CancelApplies(Head(orchInbox).requestId)
     THEN /\ computeWorkers' = Terminated(computeWorkers, currentComputeWorker)
          /\ currentComputeWorker' = Null
     ELSE UNCHANGED <<computeWorkers, currentComputeWorker>>
  /\ UNCHANGED <<initialized, currentRequestId, computeOut, mainInbox,
                 nextRid, initSent, cancelsSent, accepted, superseded,
                 ignored>>

  /\ cancelled' =
       IF currentRequestId = Head(orchInbox).requestId
       THEN cancelled \cup {currentRequestId} ELSE cancelled
  /\ cancelsHandled' =
       IF \E w \in 1..Len(computeWorkers) :
             /\ computeWorkers[w].requestId = Head(orchInbox).requestId
             /\ computeWorkers[w].status # "posted"
       THEN [cancelsHandled EXCEPT ![Head(orchInbox).requestId] = @ + 1]
       ELSE cancelsHandled
  /\ spared' =
       IF /\ currentRequestId # Head(orchInbox).requestId
          /\ currentComputeWorker # Null
          /\ computeWorkers[currentComputeWorker].status = "running"
       THEN spared \cup {currentRequestId} ELSE spared
  /\ UNCHANGED <<afterCancel, failed>>
\* solveComputation.worker.ts, self.onmessage: the strategy returns and the
\* worker posts SOLVE_COMPLETE with the requestId of its request.
ComputeSucceeds(w) ==
  /\ computeWorkers[w].status = "running"
  /\ computeWorkers' = [computeWorkers EXCEPT ![w].status = "posted"]
  /\ computeOut' = computeOut \cup
       {[worker |-> w, type |-> "SOLVE_COMPLETE",
         requestId |-> computeWorkers[w].requestId]}
  /\ UNCHANGED <<initialized, currentRequestId, currentComputeWorker,
                 orchInbox, mainInbox, nextRid, initSent, cancelsSent,
                 accepted, superseded, ignored>>

  /\ UNCHANGED orchHistory
\* solveComputation.worker.ts, self.onmessage, catch: the strategy throws
\* and the worker posts ERROR, which carries no requestId.
ComputeFails(w) ==
  /\ computeWorkers[w].status = "running"
  /\ computeWorkers' = [computeWorkers EXCEPT ![w].status = "posted"]
  /\ computeOut' = computeOut \cup
       {[worker |-> w, type |-> "ERROR", requestId |-> Undefined]}
  /\ UNCHANGED <<initialized, currentRequestId, currentComputeWorker,
                 orchInbox, mainInbox, nextRid, initSent, cancelsSent,
                 accepted, superseded, ignored>>

  /\ failed' = failed \cup {computeWorkers[w].requestId}
  /\ UNCHANGED <<cancelled, cancelsHandled, afterCancel, spared>>
\* A computeHandler that forwards every message of its compute worker.
ForwardAlways(m) == TRUE

\* The test of computeHandler: only the current request is processed.
IsCurrentRequest(m) == m.requestId = currentRequestId

\* computeHandler: a message of a compute worker reaches the orchestrator,
\* at any moment after it was posted.
ComputeHandler(m) ==
  /\ m \in computeOut
  /\ computeOut' = computeOut \ {m}
  /\ IF IsCurrentRequest(m)
     THEN /\ mainInbox' = Append(mainInbox,
                                 [type |-> m.type, requestId |-> m.requestId])
          /\ UNCHANGED ignored
     ELSE /\ UNCHANGED mainInbox
          /\ ignored' = ignored \cup {computeWorkers[m.worker].requestId}
  /\ UNCHANGED <<initialized, currentRequestId, currentComputeWorker,
                 computeWorkers, orchInbox, nextRid, initSent, cancelsSent,
                 accepted, superseded>>

  /\ afterCancel' =
       IF IsCurrentRequest(m) /\ m.requestId \in cancelled
       THEN afterCancel \cup {m.requestId} ELSE afterCancel
  /\ UNCHANGED <<cancelled, cancelsHandled, failed, spared>>
\* terminate() empties the message queue of the terminated worker's port:
\* a message still in flight when the worker was terminated may be lost.
DiscardTerminated(m) ==
  /\ m \in computeOut
  /\ currentComputeWorker # m.worker
  /\ computeOut' = computeOut \ {m}
  /\ UNCHANGED <<initialized, currentRequestId, currentComputeWorker,
                 computeWorkers, orchInbox, mainInbox, nextRid, initSent,
                 cancelsSent, accepted, superseded, ignored>>

  /\ UNCHANGED orchHistory
OrchInit ==
  /\ StreamIdle
  /\ HistIdle
  /\ FrontIdle
  /\ CacheIdle
  /\ SolveIdle
  /\ PoolIdle
  /\ OrchIdle
  /\ PureIdle
  /\ SvcIdle

OrchNext ==
  \/ (MainSendInit /\ UNCHANGED <<pureVars, svcVars, solveVars, poolVars, streamVars, histVars, frontVars, cacheVars>>)
  \/ (MainSendSolve /\ UNCHANGED <<pureVars, svcVars, solveVars, poolVars, streamVars, histVars, frontVars, cacheVars>>)
  \/ (MainSendCancel /\ UNCHANGED <<pureVars, svcVars, solveVars, poolVars, streamVars, histVars, frontVars, cacheVars>>)
  \/ (HandleInit /\ UNCHANGED <<pureVars, svcVars, solveVars, poolVars, streamVars, histVars, frontVars, cacheVars>>)
  \/ (HandleSolveNotInitialized /\ UNCHANGED <<pureVars, svcVars, solveVars, poolVars, streamVars, histVars, frontVars, cacheVars>>)
  \/ (HandleSolve /\ UNCHANGED <<pureVars, svcVars, solveVars, poolVars, streamVars, histVars, frontVars, cacheVars>>)
  \/ (HandleCancel /\ UNCHANGED <<pureVars, svcVars, solveVars, poolVars, streamVars, histVars, frontVars, cacheVars>>)
  \/ (\E w \in 1..Len(computeWorkers) : ComputeSucceeds(w) /\ UNCHANGED <<pureVars, svcVars, solveVars, poolVars, streamVars, histVars, frontVars, cacheVars>>)
  \/ (\E w \in 1..Len(computeWorkers) : ComputeFails(w) /\ UNCHANGED <<pureVars, svcVars, solveVars, poolVars, streamVars, histVars, frontVars, cacheVars>>)
  \/ (\E m \in computeOut : ComputeHandler(m) /\ UNCHANGED <<pureVars, svcVars, solveVars, poolVars, streamVars, histVars, frontVars, cacheVars>>)
  \/ (\E m \in computeOut : DiscardTerminated(m) /\ UNCHANGED <<pureVars, svcVars, solveVars, poolVars, streamVars, histVars, frontVars, cacheVars>>)

SpecOrch == OrchInit /\ [][OrchNext]_vars

\* ------------------------------------------------------------------------
\* SpecSvc: WordleSolverService, the solver worker it talks to, and the
\* App effect that displays the result
\* ------------------------------------------------------------------------

\* A call of computeSuggestions: the promise it returned (state, and the
\* call whose input the value was computed from) .
NewCall(st) == [state |-> st, result |-> NoSuggestion]

\* The body of computeSuggestions after the await: register the handler of
\* call k, post SOLVE with its game state, arm the timeout.
RECURSIVE SendAll(_, _)
SendAll(ks, queue) ==
  IF ks = <<>> THEN queue
  ELSE SendAll(Tail(ks), Append(queue, [type |-> "SOLVE", input |-> Head(ks)]))

\* Calls suspended at 'await this.initPromise', in call order.
RECURSIVE Awaiting(_, _)
Awaiting(cs, k) ==
  IF k > Len(cs) THEN <<>>
  ELSE IF cs[k].state = "awaitInit"
       THEN <<k>> \o Awaiting(cs, k + 1)
       ELSE Awaiting(cs, k + 1)

SeqToSet(q) == {q[i] : i \in 1..Len(q)}

\* initialize(): create the worker, register initHandler, post INIT.  A
\* second call returns the promise of the first.
Initialize ==
  /\ initPromise = "null"
  /\ svcWorker' = TRUE
  /\ initPromise' = "pending"
  /\ initHandler' = TRUE
  /\ toWorker' = Append(toWorker, [type |-> "INIT", input |-> NoSuggestion])
  /\ UNCHANGED <<handlers, calls, timers, fromWorker, workerReady, suggestion>>

  /\ UNCHANGED timedOut
\* The App effect runs: it calls computeSuggestions and clears the
\* displayed suggestion.  Without a worker the call throws; the catch of
\* the effect runs.
\* With initialization pending the call suspends at the await; otherwise it
\* registers its handler and posts SOLVE at once.
ComputeSuggestions ==
  /\ Len(calls) < MaxCalls
  /\ LET k == Len(calls) + 1 IN
     IF ~svcWorker \/ initPromise = "rejected"
     THEN /\ calls' = Append(calls, NewCall("rejected"))
          /\ suggestion' = NoSuggestion
          /\ UNCHANGED <<handlers, timers, toWorker>>
     ELSE IF initPromise = "pending"
     THEN /\ calls' = Append(calls, NewCall("awaitInit"))
          /\ suggestion' = NoSuggestion
          /\ UNCHANGED <<handlers, timers, toWorker>>
     ELSE /\ calls' = Append(calls, NewCall("pending"))
          /\ handlers' = Append(handlers, k)
          /\ timers' = timers \cup {k}
          /\ toWorker' = Append(toWorker, [type |-> "SOLVE", input |-> k])
          /\ suggestion' = NoSuggestion
  /\ UNCHANGED <<svcWorker, initPromise, initHandler, fromWorker, workerReady>>

  /\ UNCHANGED timedOut
\* The setTimeout callback of call k: the race rejects if the promise is
\* still pending; nothing is sent to the worker and the handler stays.
\* The catch of the effect clears the displayed suggestion.
Timeout(k) ==
  /\ k \in timers
  /\ timers' = timers \ {k}
  /\ IF calls[k].state = "pending"
     THEN /\ calls' = [calls EXCEPT ![k].state = "rejected"]
          /\ suggestion' = NoSuggestion
     ELSE UNCHANGED <<calls, suggestion>>
  /\ UNCHANGED <<svcWorker, initPromise, initHandler, handlers, toWorker,
                 fromWorker, workerReady>>

  /\ timedOut' = IF calls[k].state = "pending"
                 THEN timedOut \cup {k} ELSE timedOut
\* wordleSolver.worker.ts, self.onmessage, INIT branch.
WorkerInit ==
  /\ toWorker # <<>>
  /\ Head(toWorker).type = "INIT"
  /\ toWorker' = Tail(toWorker)
  /\ workerReady' = TRUE
  /\ fromWorker' = Append(fromWorker,
                          [type |-> "INIT_COMPLETE", input |-> NoSuggestion])
  /\ UNCHANGED <<svcWorker, initPromise, initHandler, handlers, calls, timers,
                 suggestion>>

  /\ UNCHANGED timedOut
\* wordleSolver.worker.ts, self.onmessage, SOLVE branch: the strategy
\* solves the game state of the message and the worker posts the result.
WorkerSolve ==
  /\ toWorker # <<>>
  /\ Head(toWorker).type = "SOLVE"
  /\ toWorker' = Tail(toWorker)
  /\ fromWorker' = Append(fromWorker,
       IF workerReady
       THEN [type |-> "SOLVE_COMPLETE", input |-> Head(toWorker).input]
       ELSE [type |-> "ERROR", input |-> Head(toWorker).input])
  /\ UNCHANGED <<svcWorker, initPromise, initHandler, handlers, calls, timers,
                 workerReady, suggestion>>

  /\ UNCHANGED timedOut
\* wordleSolver.worker.ts, self.onmessage, catch: the strategy throws.
WorkerSolveThrows ==
  /\ toWorker # <<>>
  /\ Head(toWorker).type = "SOLVE"
  /\ workerReady
  /\ toWorker' = Tail(toWorker)
  /\ fromWorker' = Append(fromWorker,
                          [type |-> "ERROR", input |-> Head(toWorker).input])
  /\ UNCHANGED <<svcWorker, initPromise, initHandler, handlers, calls, timers,
                 workerReady, suggestion>>

  /\ UNCHANGED timedOut
\* Which registered handlers a SOLVE_COMPLETE or ERROR message settles:
\* every handler reacts to every such message of the worker.
SettledBy(k, m) == TRUE

\* The promise of call k after message m reached its handler (the race
\* keeps a rejection by timeout).
AfterMessage(c, m) ==
  IF c.state # "pending" THEN c
  ELSE IF m.type = "SOLVE_COMPLETE"
       THEN [state |-> "resolved", result |-> m.input]
       ELSE [state |-> "rejected", result |-> NoSuggestion]

\* What the App displays after the then/catch callbacks of the calls just
\* settled have run, in call order.
RECURSIVE Displayed(_, _, _)
Displayed(ks, cs, shown) ==
  IF ks = <<>> THEN shown
  ELSE Displayed(Tail(ks), cs,
                 IF cs[Head(ks)].state = "resolved"
                 THEN cs[Head(ks)].result ELSE NoSuggestion)

\* Subsequence of q whose elements satisfy membership in S.
RECURSIVE Keep(_, _)
Keep(q, S) ==
  IF q = <<>> THEN <<>>
  ELSE IF Head(q) \in S THEN <<Head(q)>> \o Keep(Tail(q), S)
       ELSE Keep(Tail(q), S)

\* A message of the solver worker is delivered on the main thread: every
\* listener registered on the worker receives it.
\*  - INIT_COMPLETE: initHandler resolves initPromise and the calls
\*    suspended at the await resume in order.
\*  - SOLVE_COMPLETE / ERROR: each compute handler settles its promise with
\*    the message and removes itself; initHandler, if still there, rejects.
\* The then/catch callbacks of the App effect then run.
DeliverToMain ==
  /\ fromWorker # <<>>
  /\ fromWorker' = Tail(fromWorker)
  /\ LET m == Head(fromWorker) IN
     IF m.type = "INIT_COMPLETE"
     THEN LET resumed == IF initHandler THEN Awaiting(calls, 1) ELSE <<>> IN
          /\ initPromise' = IF initHandler THEN "resolved" ELSE initPromise
          /\ initHandler' = FALSE
          /\ calls' = [k \in 1..Len(calls) |->
                         IF k \in SeqToSet(resumed)
                         THEN NewCall("pending") ELSE calls[k]]
          /\ handlers' = handlers \o resumed
          /\ timers' = timers \cup SeqToSet(resumed)
          /\ toWorker' = SendAll(resumed, toWorker)
          /\ UNCHANGED suggestion
     ELSE LET hit == {k \in SeqToSet(handlers) : SettledBy(k, m)}
              settled == Keep(handlers, {k \in hit : calls[k].state = "pending"})
              waiting == IF initHandler /\ m.type = "ERROR"
                         THEN Awaiting(calls, 1) ELSE <<>>
              after == [k \in 1..Len(calls) |->
                          IF k \in hit THEN AfterMessage(calls[k], m)
                          ELSE IF k \in SeqToSet(waiting)
                               THEN NewCall("rejected") ELSE calls[k]]
          IN
          /\ calls' = after
          /\ handlers' = Keep(handlers, SeqToSet(handlers) \ hit)
          /\ initPromise' = IF initHandler /\ m.type = "ERROR"
                            THEN "rejected" ELSE initPromise
          /\ initHandler' = IF m.type = "ERROR" THEN FALSE ELSE initHandler
          /\ suggestion' = Displayed(waiting \o settled, after, suggestion)
          /\ UNCHANGED <<timers, toWorker>>
  /\ UNCHANGED <<svcWorker, workerReady>>

  /\ UNCHANGED timedOut
SvcInit ==
  /\ StreamIdle
  /\ HistIdle
  /\ FrontIdle
  /\ CacheIdle
  /\ SolveIdle
  /\ PoolIdle
  /\ SvcIdle
  /\ PureIdle
  /\ OrchIdle

SvcNext ==
  \/ (Initialize /\ UNCHANGED <<pureVars, orchVars, solveVars, poolVars, streamVars, histVars, frontVars, cacheVars>>)
  \/ (ComputeSuggestions /\ UNCHANGED <<pureVars, orchVars, solveVars, poolVars, streamVars, histVars, frontVars, cacheVars>>)
  \/ (\E k \in timers : Timeout(k) /\ UNCHANGED <<pureVars, orchVars, solveVars, poolVars, streamVars, histVars, frontVars, cacheVars>>)
  \/ (WorkerInit /\ UNCHANGED <<pureVars, orchVars, solveVars, poolVars, streamVars, histVars, frontVars, cacheVars>>)
  \/ (WorkerSolve /\ UNCHANGED <<pureVars, orchVars, solveVars, poolVars, streamVars, histVars, frontVars, cacheVars>>)
  \/ (WorkerSolveThrows /\ UNCHANGED <<pureVars, orchVars, solveVars, poolVars, streamVars, histVars, frontVars, cacheVars>>)
  \/ (DeliverToMain /\ UNCHANGED <<pureVars, orchVars, solveVars, poolVars, streamVars, histVars, frontVars, cacheVars>>)

SpecSvc == SvcInit /\ [][SvcNext]_vars

\* ------------------------------------------------------------------------
\* SpecEntry: the two places where a suggestion request enters, the
\* orchestrator worker (SOLVE message) and the service (computeSuggestions).
\* The two are not connected in the sources; a behaviour exercises one.
\* ------------------------------------------------------------------------

EntryInit ==
  /\ StreamIdle
  /\ HistIdle
  /\ FrontIdle
  /\ CacheIdle
  /\ PureIdle
  /\ OrchIdle
  /\ SvcIdle
  /\ SolveIdle
  /\ PoolIdle

EntryNext ==
  \/ (SvcIdle /\ OrchNext)
  \/ (OrchIdle /\ SvcNext)

SpecEntry == EntryInit /\ [][EntryNext]_vars

\* ------------------------------------------------------------------------
\* SpecSolve: the compute worker handles one SOLVE computation
\* ------------------------------------------------------------------------

\* The word list of the model, in ascending order (letters as codes,
\* 1 = A): AAAAA, AAAAB, AABAB, ABCAB, BBBBB, CCCCC.
DictAsc ==
  << <<1, 1, 1, 1, 1>>, <<1, 1, 1, 1, 2>>, <<1, 1, 2, 1, 2>>,
     <<1, 2, 3, 1, 2>>, <<2, 2, 2, 2, 2>>, <<3, 3, 3, 3, 3>> >>

\* The same words in descending order: the loader keeps the order of the
\* file it reads and sorts nothing.
DictDesc == [i \in 1..Len(DictAsc) |-> DictAsc[Len(DictAsc) + 1 - i]]

Dict == {DictAsc[i] : i \in 1..Len(DictAsc)}

\* Guess lists and answer lists handed to the compute worker.
GuessLists ==
  {SubSeq(list, 1, n) : list \in {DictAsc, DictDesc}, n \in 0..Len(DictAsc)}

AnswerLists == {SubSeq(DictAsc, 1, n) : n \in 0..Len(DictAsc)}

\* Typed prefixes: none, "A", "b".
TypedWords == {<<>>, <<1>>, <<28>>}

\* Histories of at most n guesses played against one secret word, each
\* with the feedback of the oracle.
RECURSIVE HistoriesOf(_, _)
HistoriesOf(secret, n) ==
  IF n = 0 THEN {<<>>}
  ELSE LET shorter == HistoriesOf(secret, n - 1)
       IN shorter \cup
            {Append(h, [word |-> g, colors |-> getFeedback(secret, g)]) :
               h \in {x \in shorter : Len(x) = n - 1}, g \in Dict}

Histories == UNION {HistoriesOf(secret, MaxHistory) : secret \in Dict}

SolveInit ==
  /\ StreamIdle
  /\ HistIdle
  /\ FrontIdle
  /\ CacheIdle
  /\ PureIdle
  /\ OrchIdle
  /\ SvcIdle
  /\ PoolIdle
  /\ solvePhase = "input"
  /\ answersList \in AnswerLists
  /\ guessesList \in GuessLists
  /\ gameState \in Histories
  /\ useStrictGuesses \in BOOLEAN
  /\ typedWord \in TypedWords
  /\ solveResult = [suggestions |-> <<>>, remainingAnswers |-> 0, scoringTasks |-> 0]

\* self.onmessage of the compute worker, when the scorer resolves.
SolveComputation ==
  /\ solvePhase = "input"
  /\ solvePhase' = "done"
  /\ LET filteredGuesses == filterWordsByPrefix(guessesList, typedWord)
     IN solveResult' =
          IF useStrictGuesses
          THEN StrictGuessesSolve(gameState, answersList, filteredGuesses)
          ELSE AllGuessesSolve(gameState, answersList, filteredGuesses)
  /\ UNCHANGED <<answersList, guessesList, gameState, useStrictGuesses,
                 typedWord>>
  /\ UNCHANGED <<pureVars, orchVars, svcVars, poolVars, streamVars, histVars, frontVars, cacheVars>>

SolveNext == SolveComputation

SpecSolve == SolveInit /\ [][SolveNext]_vars

solveDone == solvePhase = "done"

\* ------------------------------------------------------------------------
\* SpecPool: one call of scoreGuesses on a fresh worker pool
\* ------------------------------------------------------------------------

\* getOptimalPoolSize(): hardwareConcurrency 0 stands for a browser that
\* does not report it.
getOptimalPoolSize(hardwareConcurrency) ==
  LET cores == IF hardwareConcurrency = 0 THEN 4 ELSE hardwareConcurrency
      atLeastOne == IF cores - 1 > 1 THEN cores - 1 ELSE 1
  IN Min(atLeastOne, 8)

\* A processTasks that dispatches nothing.
KeepQueued(queue, active, task, size) ==
  [taskQueue |-> queue, activeWorkers |-> active, workerTask |-> task]

\* processTasks(): while a task is queued and a worker is free, the head
\* of the queue goes to the free worker of lowest index.
RECURSIVE processTasks(_, _, _, _)
processTasks(queue, active, task, size) ==
  IF queue # <<>> /\ Cardinality(active) < size
  THEN LET i == CHOOSE w \in (1..size) \ active :
                   \A v \in (1..size) \ active : w <= v
       IN processTasks(Tail(queue), active \cup {i},
                       [task EXCEPT ![i] = Head(queue)], size)
  ELSE [taskQueue |-> queue, activeWorkers |-> active, workerTask |-> task]

PoolInit ==
  /\ StreamIdle
  /\ HistIdle
  /\ FrontIdle
  /\ CacheIdle
  /\ PureIdle
  /\ OrchIdle
  /\ SvcIdle
  /\ SolveIdle
  /\ sgPhase = "ready"
  /\ sgGuesses \in GuessLists
  /\ sgAnswers \in AnswerLists
  /\ sgResult = <<>>
  /\ \E hardwareConcurrency \in 0..MaxCores :
        poolSize = getOptimalPoolSize(hardwareConcurrency)
  /\ taskQueue = <<>>
  /\ activeWorkers = {}
  /\ workerTask = [w \in 1..poolSize |-> Null]
  /\ pendingTasks = {}
  /\ promises = <<>>
  /\ chunkResults = <<>>
  /\ finishOrder = <<>>

\* The continuation of scoreGuesses after Promise.all: it resolves with the
\* merged, sorted scores once every chunk promise has resolved, and rejects
\* as soon as one has rejected.
AfterSettle(phase, proms, results, order) ==
  IF phase # "running" THEN [sgPhase |-> phase, sgResult |-> sgResult]
  ELSE IF \E c \in 1..Len(proms) : proms[c] = "rejected"
  THEN [sgPhase |-> "rejected", sgResult |-> <<>>]
  ELSE IF \A c \in 1..Len(proms) : proms[c] = "resolved"
  THEN [sgPhase |-> "resolved",
        sgResult |-> SortByScore(MergeResults(results, order), <<>>)]
  ELSE [sgPhase |-> "running", sgResult |-> <<>>]

\* scoreGuesses(guesses, possibleAnswers) up to its await: the guesses are
\* chunked and every chunk is submitted with execute, which registers the
\* promise, queues the task and calls processTasks.
ScoreGuessesCall ==
  /\ sgPhase = "ready"
  /\ LET chunks == Chunks(sgGuesses)
         all == [c \in 1..Len(chunks) |-> c]
         next == processTasks(all, activeWorkers, workerTask, poolSize)
         proms == [c \in 1..Len(chunks) |-> "pending"]
         after == AfterSettle("running", proms, <<>>, <<>>)
     IN /\ pendingTasks' = {c : c \in 1..Len(chunks)}
        /\ promises' = proms
        /\ chunkResults' = [c \in 1..Len(chunks) |-> <<>>]
        /\ taskQueue' = next.taskQueue
        /\ activeWorkers' = next.activeWorkers
        /\ workerTask' = next.workerTask
        /\ sgPhase' = after.sgPhase
        /\ sgResult' = after.sgResult
  /\ UNCHANGED <<sgGuesses, sgAnswers, poolSize, finishOrder>>

\* Worker i posts the scores of its chunk; handleWorkerResult(i, result)
\* frees the worker, resolves the promise of the chunk and processes the
\* queue.
HandleWorkerResult(i) ==
  /\ i \in activeWorkers
  /\ workerTask[i] # Null
  /\ LET c == workerTask[i]
         next == processTasks(taskQueue, activeWorkers \ {i},
                              [workerTask EXCEPT ![i] = Null], poolSize)
         proms == IF c \in pendingTasks
                  THEN [promises EXCEPT ![c] = "resolved"] ELSE promises
         results == IF c \in pendingTasks
                    THEN [chunkResults EXCEPT
                            ![c] = ScoreChunk(Chunks(sgGuesses)[c], sgAnswers)]
                    ELSE chunkResults
         order == Append(finishOrder, c)
         after == AfterSettle(sgPhase, proms, results, order)
     IN /\ pendingTasks' = pendingTasks \ {c}
        /\ promises' = proms
        /\ chunkResults' = results
        /\ finishOrder' = order
        /\ taskQueue' = next.taskQueue
        /\ activeWorkers' = next.activeWorkers
        /\ workerTask' = next.workerTask
        /\ sgPhase' = after.sgPhase
        /\ sgResult' = after.sgResult
  /\ UNCHANGED <<sgGuesses, sgAnswers, poolSize>>

\* Worker i caught an exception and posts { id, error }; handleWorkerResult
\* rejects the promise of the chunk.
HandleWorkerResultError(i) ==
  /\ i \in activeWorkers
  /\ workerTask[i] # Null
  /\ LET c == workerTask[i]
         next == processTasks(taskQueue, activeWorkers \ {i},
                              [workerTask EXCEPT ![i] = Null], poolSize)
         proms == IF c \in pendingTasks
                  THEN [promises EXCEPT ![c] = "rejected"] ELSE promises
         after == AfterSettle(sgPhase, proms, chunkResults, finishOrder)
     IN /\ pendingTasks' = pendingTasks \ {c}
        /\ promises' = proms
        /\ taskQueue' = next.taskQueue
        /\ activeWorkers' = next.activeWorkers
        /\ workerTask' = next.workerTask
        /\ sgPhase' = after.sgPhase
        /\ sgResult' = after.sgResult
  /\ UNCHANGED <<sgGuesses, sgAnswers, poolSize, chunkResults, finishOrder>>

\* Worker i raises an error event; handleWorkerError(i, error) frees the
\* worker and processes the queue.  The promise of its chunk is untouched.
HandleWorkerError(i) ==
  /\ i \in activeWorkers
  /\ workerTask[i] # Null
  /\ LET next == processTasks(taskQueue, activeWorkers \ {i},
                              [workerTask EXCEPT ![i] = Null], poolSize)
     IN /\ taskQueue' = next.taskQueue
        /\ activeWorkers' = next.activeWorkers
        /\ workerTask' = next.workerTask
  /\ UNCHANGED <<sgPhase, sgGuesses, sgAnswers, sgResult, poolSize,
                 pendingTasks, promises, chunkResults, finishOrder>>

PoolNext ==
  \/ (ScoreGuessesCall /\ UNCHANGED <<pureVars, orchVars, svcVars, solveVars, streamVars, histVars, frontVars, cacheVars>>)
  \/ (\E i \in 1..poolSize : HandleWorkerResult(i) /\ UNCHANGED <<pureVars, orchVars, svcVars, solveVars, streamVars, histVars, frontVars, cacheVars>>)
  \/ (\E i \in 1..poolSize : HandleWorkerResultError(i) /\ UNCHANGED <<pureVars, orchVars, svcVars, solveVars, streamVars, histVars, frontVars, cacheVars>>)
  \/ (\E i \in 1..poolSize : HandleWorkerError(i) /\ UNCHANGED <<pureVars, orchVars, svcVars, solveVars, streamVars, histVars, frontVars, cacheVars>>)

SpecPool == PoolInit /\ [][PoolNext]_vars

\* ------------------------------------------------------------------------
\* SpecStream: backend/handlers/suggest.go, one suggestion stream and the
\* close requests sent for it
\* ------------------------------------------------------------------------

\* streamID of the stream (uuid.New()), and an id that names no stream.
StreamID == 1

UnknownID == 2

\* The value of a channel variable that holds no channel.
NilChan == 0

Frame(event, status) ==
  [event |-> event, streamId |-> StreamID, status |-> status,
   depth |-> 0, top |-> "none"]

\* The suggestions event written by the callback: Depth and the score of
\* TopSuggestion ("none" for an empty list; otherwise "best", the highest
\* gain of the whole guess list, or "lower").
SuggestionsFrame(d, top) ==
  [event |-> "suggestions", streamId |-> StreamID, status |-> "none",
   depth |-> d, top |-> top]

\* Sizes of the guess list: one word, exactly the evaluation limit, more.
GuessCounts == {1, EvaluationLimit, EvaluationLimit + 1}

StreamInit ==
  /\ PureIdle
  /\ OrchIdle
  /\ SvcIdle
  /\ SolveIdle
  /\ PoolIdle
  /\ HistIdle
  /\ FrontIdle
  /\ CacheIdle
  /\ handlerPc = "start"
  /\ validPost \in BOOLEAN
  /\ noAnswers \in BOOLEAN
  /\ maxDepth \in 0..MaxDepth
  /\ depth = 0
  /\ frames = <<>>
  /\ activeStreams = {}
  /\ closeChanClosed = FALSE
  /\ monitor = "none"
  /\ ctxCancelled = FALSE
  /\ solveReturned = "none"
  /\ closeRequests = <<>>
  /\ guessCount \in GuessCounts
  /\ bestIndex \in {1, guessCount}
  /\ ctxAtEntry = "none"
  /\ lateFrames = {}

\* SuggestStream: wrong method or undecodable body, http.Error and return.
StreamReject ==
  /\ handlerPc = "start"
  /\ ~validPost
  /\ handlerPc' = "rejected"
  /\ UNCHANGED <<validPost, noAnswers, maxDepth, depth, frames, activeStreams,
                 closeChanClosed, monitor, ctxCancelled, solveReturned,
                 closeRequests>>
  /\ UNCHANGED strategyVars

\* SuggestStream: the stream id is generated and closeChan is registered
\* in activeStreams.
StreamRegister ==
  /\ handlerPc = "start"
  /\ validPost
  /\ handlerPc' = "registered"
  /\ activeStreams' = activeStreams \cup {StreamID}
  /\ UNCHANGED <<validPost, noAnswers, maxDepth, depth, frames,
                 closeChanClosed, monitor, ctxCancelled, solveReturned,
                 closeRequests>>
  /\ UNCHANGED strategyVars

\* SuggestStream: headers, then the stream-created frame is written and
\* flushed.
StreamCreated ==
  /\ handlerPc = "registered"
  /\ handlerPc' = "created"
  /\ frames' = Append(frames, Frame("stream-created", "none"))
  /\ UNCHANGED <<validPost, noAnswers, maxDepth, depth, activeStreams,
                 closeChanClosed, monitor, ctxCancelled, solveReturned,
                 closeRequests>>
  /\ UNCHANGED strategyVars

\* SuggestStream: the cancellable context is created and the monitor
\* goroutine is started; strategy.Solve is about to be called.
StreamSolveStart ==
  /\ handlerPc = "created"
  /\ handlerPc' = "calling"
  /\ monitor' = "started"
  /\ UNCHANGED <<validPost, noAnswers, maxDepth, depth, frames, activeStreams,
                 closeChanClosed, ctxCancelled, solveReturned, closeRequests>>
  /\ UNCHANGED strategyVars

\* The monitor goroutine reaches <-closeChan and blocks.
MonitorWait ==
  /\ monitor = "started"
  /\ monitor' = "waiting"
  /\ UNCHANGED <<handlerPc, validPost, noAnswers, maxDepth, depth, frames,
                 activeStreams, closeChanClosed, ctxCancelled, solveReturned,
                 closeRequests>>
  /\ UNCHANGED strategyVars

\* The monitor goroutine returns from <-closeChan (a value was sent, or
\* the channel was closed) and calls cancel().
MonitorCancel ==
  /\ \/ monitor = "received"
     \/ monitor = "waiting" /\ closeChanClosed
  /\ monitor' = "done"
  /\ ctxCancelled' = TRUE
  /\ UNCHANGED <<handlerPc, validPost, noAnswers, maxDepth, depth, frames,
                 activeStreams, closeChanClosed, solveReturned, closeRequests>>
  /\ UNCHANGED strategyVars

\* len(evaluationSet) of evaluateGuesses at depth d.
EvaluationSize(d) ==
  IF d > 1 /\ guessCount > EvaluationLimit THEN EvaluationLimit
  ELSE guessCount

\* The score of the first suggestion of evaluateGuesses at depth d, for two
\* or more possible answers: the highest gain of the list if the guess
\* that has it is in the evaluation set, a lower gain otherwise.
TopScore(d) == IF bestIndex <= EvaluationSize(d) THEN "best" ELSE "lower"

\* a >= b on the scores of two top suggestions.
ScoreAtLeast(a, b) == a = "best" \/ b # "best"

\* A depth loop that stops one depth early.
LoopStopsEarly(d, m) == d < m

\* for depth := 1; depth <= maxDepth; depth++
LoopContinues(d, m) == d <= m

\* InformationGainStrategy.Solve is called: the answers are filtered; with
\* no possible answer the callback is invoked once with an empty list and
\* depth 1 and Solve returns nil, whatever the context; otherwise the
\* depth loop starts.
SolveEnter ==
  /\ handlerPc = "calling"
  /\ ctxAtEntry' = IF ctxCancelled THEN "cancelled" ELSE "live"
  /\ IF noAnswers
     THEN /\ frames' = Append(frames, SuggestionsFrame(1, "none"))
          /\ lateFrames' = IF ctxCancelled THEN lateFrames \cup {1}
                           ELSE lateFrames
          /\ solveReturned' = "nil"
          /\ handlerPc' = "completing"
          /\ UNCHANGED depth
     ELSE /\ depth' = 1
          /\ handlerPc' = "solving"
          /\ UNCHANGED <<frames, lateFrames, solveReturned>>
  /\ UNCHANGED <<validPost, noAnswers, maxDepth, activeStreams,
                 closeChanClosed, monitor, ctxCancelled, closeRequests,
                 guessCount, bestIndex>>

\* The head of the depth loop: the loop condition, then the select on
\* ctx.Done().
SolveCheck ==
  /\ handlerPc = "solving"
  /\ IF ~LoopContinues(depth, maxDepth)
     THEN /\ solveReturned' = "nil"
          /\ handlerPc' = "completing"
     ELSE IF ctxCancelled
     THEN /\ solveReturned' = "ctxErr"
          /\ handlerPc' = "completing"
     ELSE /\ handlerPc' = "evaluating"
          /\ UNCHANGED solveReturned
  /\ UNCHANGED <<validPost, noAnswers, maxDepth, depth, frames,
                 activeStreams, closeChanClosed, monitor, ctxCancelled,
                 closeRequests, strategyVars>>

\* The body of the depth loop: evaluateGuesses returns and the callback
\* writes the suggestions frame of this depth (it returns true); the
\* context is not looked at again.
SolveEmit ==
  /\ handlerPc = "evaluating"
  /\ frames' = Append(frames, SuggestionsFrame(depth, TopScore(depth)))
  /\ lateFrames' = IF ctxCancelled THEN lateFrames \cup {depth}
                   ELSE lateFrames
  /\ depth' = depth + 1
  /\ handlerPc' = "solving"
  /\ UNCHANGED <<validPost, noAnswers, maxDepth, activeStreams,
                 closeChanClosed, monitor, ctxCancelled, solveReturned,
                 closeRequests, guessCount, bestIndex, ctxAtEntry>>

\* A handler that writes no completion frame for a cancelled stream.
NoFrameWhenCancelled(returned) ==
  IF returned = "ctxErr" THEN <<>>
  ELSE <<Frame("stream-completed", "completed")>>

\* The completion event of SuggestStream: status "completed", whatever
\* Solve returned.
CompletionFrames(returned) == <<Frame("stream-completed", "completed")>>

\* SuggestStream after Solve: the stream-completed frame is written.
StreamComplete ==
  /\ handlerPc = "completing"
  /\ handlerPc' = "sleeping"
  /\ frames' = frames \o CompletionFrames(solveReturned)
  /\ UNCHANGED <<validPost, noAnswers, maxDepth, depth, activeStreams,
                 closeChanClosed, monitor, ctxCancelled, solveReturned,
                 closeRequests>>
  /\ UNCHANGED strategyVars

\* SuggestStream returns after the sleep; the deferred calls run: cancel(),
\* then the stream is deleted from activeStreams and closeChan is closed.
StreamExit ==
  /\ handlerPc = "sleeping"
  /\ handlerPc' = "exited"
  /\ ctxCancelled' = TRUE
  /\ activeStreams' = activeStreams \ {StreamID}
  /\ closeChanClosed' = TRUE
  /\ UNCHANGED <<validPost, noAnswers, maxDepth, depth, frames, monitor,
                 solveReturned, closeRequests>>
  /\ UNCHANGED strategyVars

\* A lookup that finds every stream id.
StreamAlwaysExists(id) == TRUE

\* closeChan, exists := activeStreams[req.StreamID]
StreamExists(id) == id \in activeStreams

\* CloseStream up to the lookup: the request names a stream id; a stream
\* that is not found is answered 404.
CloseLookup ==
  /\ Len(closeRequests) < MaxCloses
  /\ \E id \in {StreamID, UnknownID} :
        closeRequests' =
          Append(closeRequests,
                 [streamId |-> id,
                  registered |-> id \in activeStreams,
                  closeChan |-> IF id \in activeStreams THEN id ELSE NilChan,
                  pc |-> IF StreamExists(id) THEN "found" ELSE "404",
                  signalled |-> FALSE])
  /\ UNCHANGED <<handlerPc, validPost, noAnswers, maxDepth, depth, frames,
                 activeStreams, closeChanClosed, monitor, ctxCancelled,
                 solveReturned>>
  /\ UNCHANGED strategyVars

\* CloseStream after the lookup: select { case closeChan <- struct{}{}:
\* default: }, then 200.  The send is taken only if the monitor goroutine
\* is blocked on the receive; a send on a closed channel panics; a nil
\* channel is never ready.
CloseSignal(c) ==
  /\ closeRequests[c].pc = "found"
  /\ IF closeRequests[c].closeChan = NilChan
     THEN /\ closeRequests' = [closeRequests EXCEPT ![c].pc = "200"]
          /\ UNCHANGED monitor
     ELSE IF closeChanClosed
     THEN /\ closeRequests' = [closeRequests EXCEPT ![c].pc = "panic"]
          /\ UNCHANGED monitor
     ELSE IF monitor = "waiting"
     THEN /\ closeRequests' = [closeRequests EXCEPT ![c].pc = "200",
                                                    ![c].signalled = TRUE]
          /\ monitor' = "received"
     ELSE /\ closeRequests' = [closeRequests EXCEPT ![c].pc = "200"]
          /\ UNCHANGED monitor
  /\ UNCHANGED <<handlerPc, validPost, noAnswers, maxDepth, depth, frames,
                 activeStreams, closeChanClosed, ctxCancelled, solveReturned>>
  /\ UNCHANGED strategyVars

StreamNext ==
  \/ (StreamReject /\ UNCHANGED <<pureVars, orchVars, svcVars, solveVars, poolVars, histVars, frontVars, cacheVars>>)
  \/ (StreamRegister /\ UNCHANGED <<pureVars, orchVars, svcVars, solveVars, poolVars, histVars, frontVars, cacheVars>>)
  \/ (StreamCreated /\ UNCHANGED <<pureVars, orchVars, svcVars, solveVars, poolVars, histVars, frontVars, cacheVars>>)
  \/ (StreamSolveStart /\ UNCHANGED <<pureVars, orchVars, svcVars, solveVars, poolVars, histVars, frontVars, cacheVars>>)
  \/ (MonitorWait /\ UNCHANGED <<pureVars, orchVars, svcVars, solveVars, poolVars, histVars, frontVars, cacheVars>>)
  \/ (MonitorCancel /\ UNCHANGED <<pureVars, orchVars, svcVars, solveVars, poolVars, histVars, frontVars, cacheVars>>)
  \/ (SolveEnter /\ UNCHANGED <<pureVars, orchVars, svcVars, solveVars, poolVars, histVars, frontVars, cacheVars>>)
  \/ (SolveCheck /\ UNCHANGED <<pureVars, orchVars, svcVars, solveVars, poolVars, histVars, frontVars, cacheVars>>)
  \/ (SolveEmit /\ UNCHANGED <<pureVars, orchVars, svcVars, solveVars, poolVars, histVars, frontVars, cacheVars>>)
  \/ (StreamComplete /\ UNCHANGED <<pureVars, orchVars, svcVars, solveVars, poolVars, histVars, frontVars, cacheVars>>)
  \/ (StreamExit /\ UNCHANGED <<pureVars, orchVars, svcVars, solveVars, poolVars, histVars, frontVars, cacheVars>>)
  \/ (CloseLookup /\ UNCHANGED <<pureVars, orchVars, svcVars, solveVars, poolVars, histVars, frontVars, cacheVars>>)
  \/ (\E c \in 1..Len(closeRequests) : CloseSignal(c) /\ UNCHANGED <<pureVars, orchVars, svcVars, solveVars, poolVars, histVars, frontVars, cacheVars>>)

SpecStream == StreamInit /\ [][StreamNext]_vars

\* ------------------------------------------------------------------------
\* SpecHistory: the filter and the strategies on prefixes and reorderings
\* of one history
\* ------------------------------------------------------------------------

\* The answer list of this specification (1 = A, ..., 4 = D): AABBC, ABABC,
\* ABBAC, BAABC, BABAC, BBAAC.
HistAnswers ==
  << <<1, 1, 2, 2, 3>>, <<1, 2, 1, 2, 3>>, <<1, 2, 2, 1, 3>>,
     <<2, 1, 1, 2, 3>>, <<2, 1, 2, 1, 3>>, <<2, 2, 1, 1, 3>> >>

\* Words guessed in the histories: ADDDD, DADDD, DDADD, ABABC.
HistPlayed ==
  { <<1, 4, 4, 4, 4>>, <<4, 1, 4, 4, 4>>, <<4, 4, 1, 4, 4>>,
    <<1, 2, 1, 2, 3>> }

\* Secret words the feedback of an entry was computed for: AABBC, ABABC,
\* BBAAC.  The entries of one history need not agree on the secret (the
\* user paints the tiles).
HistSecrets ==
  { <<1, 1, 2, 2, 3>>, <<1, 2, 1, 2, 3>>, <<2, 2, 1, 1, 3>> }

HistEntries ==
  {[word |-> g, colors |-> getFeedback(a, g)] :
     g \in HistPlayed, a \in HistSecrets}

\* The guess list: the answers in descending order, then ADDDD, DADDD.
HistGuesses ==
  [i \in 1..Len(HistAnswers) |-> HistAnswers[Len(HistAnswers) + 1 - i]]
    \o << <<1, 4, 4, 4, 4>>, <<4, 1, 4, 4, 4>> >>

RECURSIVE HistoriesUpTo(_)
HistoriesUpTo(n) ==
  IF n = 0 THEN {<<>>}
  ELSE LET shorter == HistoriesUpTo(n - 1)
       IN shorter \cup
            {Append(h, e) : h \in {x \in shorter : Len(x) = n - 1},
                            e \in HistEntries}

\* The reorderings of n entries.
Reorderings(n) ==
  {p \in [1..n -> 1..n] : \A i, j \in 1..n : p[i] = p[j] => i = j}

Reordered(history, p) == [i \in 1..Len(history) |-> history[p[i]]]

HistInit ==
  /\ PureIdle
  /\ OrchIdle
  /\ SvcIdle
  /\ SolveIdle
  /\ PoolIdle
  /\ StreamIdle
  /\ FrontIdle
  /\ CacheIdle
  /\ hPhase = "input"
  /\ hHistory \in HistoriesUpTo(MaxEntries)
  /\ hPerm \in Reorderings(Len(hHistory))
  /\ hStrict \in BOOLEAN
  /\ hKept = <<>>
  /\ hSolved = <<>>

\* filterCandidateWords under every prefix of the history (hKept[n + 1] is
\* the list kept under the first n entries).
FilterPrefixes ==
  /\ hPhase = "input"
  /\ hPhase' = "filtered"
  /\ hKept' = [k \in 1..(Len(hHistory) + 1) |->
                 filterCandidateWords(SubSeq(hHistory, 1, k - 1),
                                      HistAnswers)]
  /\ UNCHANGED <<hHistory, hPerm, hStrict, hSolved>>
  /\ UNCHANGED <<pureVars, orchVars, svcVars, solveVars, poolVars, streamVars,
                 frontVars, cacheVars>>

\* strategy.solve on a history.
HistSolve(history) ==
  IF hStrict
  THEN StrictGuessesSolve(history, HistAnswers, HistGuesses)
  ELSE AllGuessesSolve(history, HistAnswers, HistGuesses)

\* solve on the history and on the same entries in another order.
SolveReordered ==
  /\ hPhase = "input"
  /\ hPhase' = "solved"
  /\ hSolved' =
       [original |-> HistSolve(hHistory),
        reordered |-> HistSolve(Reordered(hHistory, hPerm)),
        answers |-> filterCandidateWords(hHistory, HistAnswers),
        answersReordered |->
          filterCandidateWords(Reordered(hHistory, hPerm), HistAnswers)]
  /\ UNCHANGED <<hHistory, hPerm, hStrict, hKept>>
  /\ UNCHANGED <<pureVars, orchVars, svcVars, solveVars, poolVars, streamVars,
                 frontVars, cacheVars>>

HistNext == FilterPrefixes \/ SolveReordered

SpecHistory == HistInit /\ [][HistNext]_vars

\* ------------------------------------------------------------------------
\* Claims on the oracle and the filter (SpecPure)
\* ------------------------------------------------------------------------

\* Positions of the guess holding letter l that the oracle coloured.
ColouredTiles(l) ==
  {i \in Pos : pGuess[i] = l /\ pFeedback[i] \in {"green", "yellow"}}

\* C4: for every word w and entry (g, f) with any 5-colour feedback f, if
\* matchesFeedback(w, (g, f)) is true then getFeedback(w, g) = f.
C4_FilterImpliesOracle ==
  pDone =>
    \A f \in Feedbacks :
       matchesFeedback(pAnswer, pGuess, f) => pFeedback = f

\* C5: the filter accepts every word against the entry the oracle emits for
\* it: matchesFeedback(w, (g, getFeedback(w, g))) is true.
C5_FilterKeepsTrueAnswer == pDone => pMatches = TRUE

\* C5 witness: the filter has accepted a word for which the guess repeats a
\* letter that the oracle coloured yellow once and gray once.
C5_Witness ==
  /\ pDone
  /\ pMatches = TRUE
  /\ \E i, j \in Pos :
        /\ pGuess[i] = pGuess[j]
        /\ pFeedback[i] = "yellow"
        /\ pFeedback[j] = "gray"

C28_FilterAgreesWithOracle ==
  pDone =>
     \A w \in Words :
        matchesFeedback(w, pGuess, pFeedback)
          <=> (getFeedback(w, pGuess) = pFeedback)

\* ------------------------------------------------------------------------
\* Claims on the orchestrator worker (SpecOrch)
\* ------------------------------------------------------------------------

\* Nothing is pending for request r: its compute worker no longer runs and
\* has no message in flight.
Settled(r) ==
  /\ \A w \in 1..Len(computeWorkers) :
        computeWorkers[w].requestId = r => computeWorkers[w].status # "running"
  /\ \A m \in computeOut : computeWorkers[m.worker].requestId # r

\* C1: once SOLVE(r2) has been handled while r1 was still running, no
\* SOLVE_COMPLETE carrying requestId r1 is posted to the main thread,
\* whenever r1's compute worker delivers its result.
C1_NoStaleSolveComplete ==
  \A r \in superseded :
     \A i \in 1..Len(mainInbox) :
        ~(mainInbox[i].type = "SOLVE_COMPLETE" /\ mainInbox[i].requestId = r)

\* C1 witness: the result of a preempted request reached computeHandler
\* after the later SOLVE was handled, and was ignored.
C1_Witness ==
  \E r \in superseded :
     /\ r \in ignored
     /\ currentRequestId # r
     /\ \E w \in 1..Len(computeWorkers) :
           /\ computeWorkers[w].requestId = r
           /\ computeWorkers[w].status = "posted"

\* C2: every accepted SOLVE leads to exactly one terminal message for its
\* request on the main thread: never more than one, and one once nothing is
\* pending for the request any more.
C2_ExactlyOneTerminalMessage ==
  \A r \in accepted :
     /\ Cardinality(TerminalMessages(r)) <= 1
     /\ Settled(r) => Cardinality(TerminalMessages(r)) = 1

C12_OneSentinelForTwoCancels ==
  \A r \in Rids :
     cancelsHandled[r] >= 2 =>
       /\ Cardinality({i \in 1..Len(mainInbox) :
                         /\ mainInbox[i].type = "CANCELLED"
                         /\ mainInbox[i].requestId = r}) = 1
       /\ \A i \in 1..Len(mainInbox) : mainInbox[i].type # "ERROR"

\* C13: once the computation of request rid has failed and nothing is
\* pending for it any more, the main thread has received an ERROR message
\* with requestId = rid.
C13_FailureSurfacesWithRid ==
  \A r \in failed :
     Settled(r) =>
       \E i \in 1..Len(mainInbox) :
          mainInbox[i].type = "ERROR" /\ mainInbox[i].requestId = r

\* C25: at every moment at most one compute worker is live (terminate()
\* has not been called on it); it is the one held in
\* state.currentComputeWorker and it was started for the most recently
\* accepted SOLVE.
C25_AtMostOneLiveComputeWorker ==
  \A w \in 1..Len(computeWorkers) :
     computeWorkers[w].live =>
        /\ w = Len(computeWorkers)
        /\ w = currentComputeWorker
        /\ computeWorkers[w].requestId = currentRequestId

\* A second SOLVE was handled while the compute worker of the first was
\* still running: the first worker is terminated, the second is live.
C25_Witness ==
  /\ Len(computeWorkers) >= 2
  /\ computeWorkers[1].status = "terminated"
  /\ ~computeWorkers[1].live
  /\ computeWorkers[Len(computeWorkers)].live
  /\ computeWorkers[Len(computeWorkers)].status = "running"

\* The orchestrator handles a CANCEL whose requestId is not the current
\* request.
LateCancelHandled ==
  /\ orchInbox # <<>>
  /\ Head(orchInbox).type = "CANCEL"
  /\ Head(orchInbox).requestId # currentRequestId
  /\ orchInbox' = Tail(orchInbox)

\* C32: a CANCEL whose requestId is not the current request changes
\* nothing in the orchestrator (state, compute workers, messages posted),
\* and the SOLVE_COMPLETE of the request that was current is forwarded
\* once its worker has delivered it, unless that request was itself
\* preempted or cancelled later or its computation threw.
C32_LateCancelChangesNothing ==
  /\ [][LateCancelHandled =>
          UNCHANGED <<initialized, currentRequestId, currentComputeWorker,
                      computeWorkers, computeOut, mainInbox>>]_vars
  /\ [](\A r \in spared :
           (/\ r = currentRequestId
            /\ r \notin cancelled
            /\ r \notin failed
            /\ Settled(r))
             => \E i \in 1..Len(mainInbox) :
                   /\ mainInbox[i].type = "SOLVE_COMPLETE"
                   /\ mainInbox[i].requestId = r)

\* CANCEL(1) was handled after SOLVE(2), while the compute worker of
\* request 2 was running, and SOLVE_COMPLETE(2) has reached the main
\* thread since.
C32_Witness ==
  /\ 2 \in spared
  /\ cancelsHandled[1] >= 1
  /\ 2 \notin cancelled
  /\ \E i \in 1..Len(mainInbox) :
        /\ mainInbox[i].type = "SOLVE_COMPLETE"
        /\ mainInbox[i].requestId = 2


\* ------------------------------------------------------------------------

\* No call is in progress: every promise has settled and no message is
\* under way.
SvcQuiet ==
  /\ toWorker = <<>>
  /\ fromWorker = <<>>
  /\ \A k \in 1..Len(calls) : calls[k].state \in {"resolved", "rejected"}

\* C3: when computeSuggestions is called for r2 before r1 has settled, the
\* promise of every call resolves only with the result computed from its
\* own input, and the suggestion finally displayed is never one computed
\* for an earlier call.
C3_ResolvesWithOwnResult ==
  /\ \A k \in 1..Len(calls) :
        calls[k].state = "resolved" => calls[k].result = k
  /\ (SvcQuiet /\ suggestion # NoSuggestion) => suggestion = Len(calls)

\* ------------------------------------------------------------------------
\* Claims on the solve computation (SpecSolve)
\* ------------------------------------------------------------------------

\* The answers that survive the history.
SurvivingAnswers == filterCandidateWords(gameState, answersList)

\* The guesses the strategy scores: those with the typed prefix and, in the
\* strict strategy, consistent with the history.
CandidateGuesses ==
  IF useStrictGuesses
  THEN filterCandidateWords(gameState, filterWordsByPrefix(guessesList, typedWord))
  ELSE filterWordsByPrefix(guessesList, typedWord)

\* Position of a word in a list without repetition (0 when absent).
IndexOf(list, word) ==
  IF \E i \in 1..Len(list) : list[i] = word
  THEN CHOOSE i \in 1..Len(list) : list[i] = word
  ELSE 0

\* a < b in lexicographic order.
WordLess(a, b) ==
  \E k \in 1..Len(a) : a[k] < b[k] /\ \A j \in 1..(k - 1) : a[j] = b[j]

\* C8: with at least two surviving answers the number of suggestions is
\* min(5, number of candidate guesses) in both strategies; it is 1 with one
\* surviving answer and 0 with none.
C8_SuggestionCount ==
  solveDone =>
    LET n == Len(SurvivingAnswers)
        returned == Len(solveResult.suggestions)
    IN /\ n >= 2 => returned = Min(TopK, Len(CandidateGuesses))
       /\ n = 1 => returned = 1
       /\ n = 0 => returned = 0

C20_SingleAnswerSentinel ==
  (solveDone /\ Len(SurvivingAnswers) = 1) =>
     /\ solveResult.suggestions =
          <<[word |-> SurvivingAnswers[1], score |-> MAX_VALUE]>>
     /\ solveResult.remainingAnswers = 1
     /\ solveResult.scoringTasks = 0

\* C20 witness: after a guess one answer survives, several candidate
\* guesses were available, and the answer is returned with the sentinel.
C20_Witness ==
  /\ solveDone
  /\ gameState # <<>>
  /\ Len(answersList) >= 2
  /\ Len(SurvivingAnswers) = 1
  /\ Len(CandidateGuesses) >= 2
  /\ Len(solveResult.suggestions) = 1
  /\ solveResult.suggestions[1].score = MAX_VALUE

\* C21: whenever the typed prefix is non-empty, every suggested word
\* begins with it (compared case-insensitively), for every number of
\* surviving answers.
C21_SuggestionsHavePrefix ==
  (solveDone /\ typedWord # <<>>) =>
     \A i \in 1..Len(solveResult.suggestions) :
        StartsWith(solveResult.suggestions[i].word, typedWord)

C22_FilterMonotone ==
  hPhase = "filtered" =>
     \A n \in 1..Len(hKept) : \A m \in n..Len(hKept) :
        SeqToSet(hKept[m]) \subseteq SeqToSet(hKept[n])

\* A two-entry history under which each entry removes words and some
\* words survive.
C22_Witness ==
  /\ hPhase = "filtered"
  /\ Len(hHistory) = 2
  /\ Len(hKept[1]) > Len(hKept[2])
  /\ Len(hKept[2]) > Len(hKept[3])
  /\ Len(hKept[3]) > 0

\* C23: reordering the entries of the history changes neither the set of
\* surviving answers nor the ranked suggestions returned.
C23_OrderOfEntriesIrrelevant ==
  hPhase = "solved" =>
     /\ SeqToSet(hSolved.answers) = SeqToSet(hSolved.answersReordered)
     /\ hSolved.original = hSolved.reordered

\* Two different entries are swapped, each of them removes answers the
\* other keeps, at least two answers survive and several guesses are
\* ranked.
C23_Witness ==
  /\ hPhase = "solved"
  /\ Len(hHistory) = 2
  /\ hHistory[1] # hHistory[2]
  /\ hPerm = <<2, 1>>
  /\ Len(hSolved.answers) >= 2
  /\ Len(hSolved.answers) < Len(HistAnswers)
  /\ Len(hSolved.original.suggestions) >= 2
  /\ Len(filterCandidateWords(<<hHistory[1]>>, HistAnswers))
       > Len(hSolved.answers)
  /\ Len(filterCandidateWords(<<hHistory[2]>>, HistAnswers))
       > Len(hSolved.answers)

\* ------------------------------------------------------------------------
\* Claims on the worker pool (SpecPool)
\* ------------------------------------------------------------------------

\* C10: for fixed guesses and surviving answers, scoreGuesses resolves
\* with one ranked sequence, the stable sort by descending score of the
\* scores of the guesses in list order, whatever the order in which the
\* pool workers finish their chunks.
C10_RankingIndependentOfFinishOrder ==
  sgPhase = "resolved" =>
    sgResult = SortByScore(ScoreChunk(sgGuesses, sgAnswers), <<>>)

\* C10 witness: the call has resolved after a later chunk finished before
\* an earlier one, with guesses of equal score in the two chunks.
C10_Witness ==
  /\ sgPhase = "resolved"
  /\ \E a, b \in 1..Len(finishOrder) :
        /\ a < b
        /\ finishOrder[a] > finishOrder[b]
        /\ \E x \in 1..Len(chunkResults[finishOrder[a]]) :
           \E y \in 1..Len(chunkResults[finishOrder[b]]) :
              chunkResults[finishOrder[a]][x].score
                = chunkResults[finishOrder[b]][y].score

\* C33: every promise returned by execute settles once the workers have
\* answered (with a result or an error) every task they were given: when
\* no task is queued and no worker is busy, no promise is pending.
C33_EveryPromiseSettles ==
  (taskQueue = <<>> /\ activeWorkers = {}) =>
     \A c \in 1..Len(promises) : promises[c] # "pending"

\* The tasks posted to workers that have not answered yet.
TasksInFlight == {workerTask[i] : i \in activeWorkers}

\* C34: the busy workers are exactly those holding a task and hold
\* different tasks, none of which is still queued (no task is posted to a
\* busy worker); at most poolSize tasks are in flight; and no task waits
\* in the queue while a worker is idle.
C34_OneTaskPerWorker ==
  /\ activeWorkers \subseteq 1..poolSize
  /\ \A i \in 1..poolSize : (i \in activeWorkers) <=> (workerTask[i] # Null)
  /\ \A i, j \in activeWorkers : workerTask[i] = workerTask[j] => i = j
  /\ \A q \in 1..Len(taskQueue) : taskQueue[q] \notin TasksInFlight
  /\ Cardinality(TasksInFlight) <= poolSize
  /\ taskQueue # <<>> => Cardinality(activeWorkers) = poolSize

\* A worker has answered, the task at the head of the queue went to it at
\* once, and tasks are still queued behind the busy workers.
C34_Witness ==
  /\ finishOrder # <<>>
  /\ taskQueue # <<>>
  /\ Cardinality(activeWorkers) = poolSize
  /\ \E i \in activeWorkers : workerTask[i] > poolSize

\* C35: scoreGuesses splits the guesses into at most 4 non-empty chunks,
\* one task each, whose concatenation in chunk order is the input list;
\* the scores it resolves with are those of every guess exactly once.
C35_ChunksPartitionGuesses ==
  sgPhase \in {"running", "resolved", "rejected"} =>
     LET chunks == Chunks(sgGuesses) IN
     /\ Len(promises) = Len(chunks)
     /\ Len(chunks) <= ChunkDivisor
     /\ \A c \in 1..Len(chunks) : chunks[c] # <<>>
     /\ MergeFrom(chunks, 1) = sgGuesses
     /\ sgPhase = "resolved" =>
           /\ \A c \in 1..Len(chunks) :
                 [x \in 1..Len(chunkResults[c]) |-> chunkResults[c][x].word]
                   = chunks[c]
           /\ Len(sgResult) = Len(sgGuesses)
           /\ \A g \in 1..Len(sgGuesses) :
                 Cardinality({x \in 1..Len(sgResult) :
                                sgResult[x].word = sgGuesses[g]}) = 1

\* A call on five guesses has resolved: three chunks, the last one shorter.
C35_Witness ==
  /\ sgPhase = "resolved"
  /\ Len(sgGuesses) = 5
  /\ Len(promises) = 3
  /\ Len(chunkResults[3]) = 1
  /\ Len(chunkResults[1]) = 2

\* C14: a call that exceeds its timeout is rejected with the timeout error,
\* and the result computed for it is delivered to no caller afterwards.
C14_TimeoutCancelsComputation ==
  \A k \in timedOut :
     /\ calls[k].state = "rejected"
     /\ \A j \in 1..Len(calls) :
           ~(calls[j].state = "resolved" /\ calls[j].result = k)

\* ------------------------------------------------------------------------
\* Claims on requests made before initialization (SpecEntry)
\* ------------------------------------------------------------------------

\* The orchestrator handles a SOLVE while it is not initialized.
SolveBeforeInit ==
  /\ orchInbox # <<>>
  /\ Head(orchInbox).type = "SOLVE"
  /\ ~initialized
  /\ orchInbox' = Tail(orchInbox)

\* computeSuggestions is called while the service has no worker.
CallBeforeInitialize ==
  /\ ~svcWorker
  /\ Len(calls') = Len(calls) + 1

\* C15: a SOLVE handled before INIT is answered with ERROR and spawns no
\* compute worker; computeSuggestions called before initialize fails and
\* posts no SOLVE.
C15_NotInitializedIsAnError ==
  [][/\ SolveBeforeInit =>
          /\ mainInbox' = Append(mainInbox,
                                 [type |-> "ERROR", requestId |-> Undefined])
          /\ computeWorkers' = computeWorkers
          /\ currentComputeWorker' = currentComputeWorker
     /\ CallBeforeInitialize =>
          /\ calls'[Len(calls')].state = "rejected"
          /\ toWorker' = toWorker
          /\ handlers' = handlers]_vars

\* C15 witness: a SOLVE was sent before INIT and answered with ERROR, and
\* no compute worker exists.
C15_Witness ==
  /\ ~initialized
  /\ nextRid > 1
  /\ computeWorkers = <<>>
  /\ \E i \in 1..Len(mainInbox) : mainInbox[i].type = "ERROR"

\* ------------------------------------------------------------------------
\* Claims on the backend stream (SpecStream)
\* ------------------------------------------------------------------------

\* C16: the frames of the response to a valid POST are one stream-created
\* frame first, then suggestions frames, then one stream-completed frame
\* last, all with the same streamId; the stream-completed frame is there
\* once the handler has passed its completion step.
C16_FrameSequence ==
  /\ \A i \in 1..Len(frames) :
        /\ frames[i].streamId = StreamID
        /\ (frames[i].event = "stream-created") <=> (i = 1)
        /\ frames[i].event \in {"stream-created", "suggestions", "stream-completed"}
        /\ frames[i].event = "stream-completed" => i = Len(frames)
  /\ handlerPc \in {"created", "calling", "solving", "evaluating",
                     "completing"} =>
        frames # <<>> /\ frames[Len(frames)].event # "stream-completed"
  /\ handlerPc \in {"sleeping", "exited"} =>
        Len(frames) >= 2 /\ frames[Len(frames)].event = "stream-completed"

\* C16 witness: a stream that was cancelled after a suggestions frame has
\* exited with its three kinds of frames.
C16_Witness ==
  /\ handlerPc = "exited"
  /\ solveReturned = "ctxErr"
  /\ Len(frames) >= 3
  /\ frames[1].event = "stream-created"
  /\ frames[2].event = "suggestions"
  /\ frames[Len(frames)].event = "stream-completed"

\* C17: the stream-completed frame has status "cancelled" when Solve was
\* ended by the cancellation of its context, and "completed" only when the
\* strategy ran to completion.
C17_CompletionStatus ==
  \A i \in 1..Len(frames) :
     frames[i].event = "stream-completed" =>
       /\ solveReturned = "ctxErr" => frames[i].status = "cancelled"
       /\ frames[i].status = "completed" => solveReturned = "nil"

\* C18: whenever CloseStream has answered 200 for the stream and the
\* stream has not finished solving, the cancellation has been delivered:
\* the context is cancelled or the monitor goroutine has received the
\* signal.
C18_CloseDeliversCancellation ==
  \A c \in 1..Len(closeRequests) :
     (/\ closeRequests[c].pc = "200"
      /\ closeRequests[c].streamId = StreamID
      /\ handlerPc \in {"registered", "created", "calling", "solving",
                         "evaluating"})
       => (ctxCancelled \/ monitor = "received")

\* C19: CloseStream for a stream id that is not registered at the lookup
\* answers 404 and sends nothing on any channel.
C19_UnknownStreamIs404 ==
  \A c \in 1..Len(closeRequests) :
     ~closeRequests[c].registered =>
        /\ closeRequests[c].pc = "404"
        /\ ~closeRequests[c].signalled

\* C19 witness: one close request for an id never created and one for the
\* stream after its handler exited, both answered 404.
C19_Witness ==
  /\ handlerPc = "exited"
  /\ \E c, d \in 1..Len(closeRequests) :
        /\ closeRequests[c].streamId = UnknownID
        /\ closeRequests[c].pc = "404"
        /\ closeRequests[d].streamId = StreamID
        /\ ~closeRequests[d].registered
        /\ closeRequests[d].pc = "404"

\* The suggestions frames written so far, in order: one per invocation of
\* the callback.
SuggestionsFrames == SelectSeq(frames, LAMBDA f : f.event = "suggestions")

\* Solve has returned and its context was never cancelled, on a game state
\* with possible answers.
SolveRanUncancelled ==
  handlerPc = "completing" /\ ~ctxCancelled /\ ~noAnswers

C27_CancelledContextNoCallback ==
  ctxAtEntry = "cancelled" =>
     /\ SuggestionsFrames = <<>>
     /\ solveReturned \in {"none", "ctxErr"}

\* C29: the top score reported at depth d + 1 is at least the top score
\* reported at depth d.
C29_TopScoreNeverDecreases ==
  \A i \in 1..(Len(SuggestionsFrames) - 1) :
     ScoreAtLeast(SuggestionsFrames[i + 1].top, SuggestionsFrames[i].top)

\* C30: no suggestions frame is written to the stream after the stream's
\* context has been cancelled.
C30_NoFrameAfterCancel == lateFrames = {}

\* C31: CloseStream never sends on a close channel that the handler's
\* cleanup has already closed (the send of its select never panics).
C31_NoSendOnClosedChannel ==
  \A c \in 1..Len(closeRequests) : closeRequests[c].pc # "panic"

\* ------------------------------------------------------------------------
\* SpecReader: WordleAIClient.streamSuggestions and its processStream loop.
\* ------------------------------------------------------------------------

\* The frames the backend writes for a stream with k suggestions events.
ReaderFrames(k) ==
  <<"stream-created">> \o [i \in 1..k |-> "suggestions"]
                       \o <<"stream-completed">>

\* What arrives before the connection closes: all the frames, or the frames
\* up to the point where the connection was lost.
ServerOutputs ==
  UNION {{SubSeq(ReaderFrames(k), 1, n) : n \in 0..(k + 2)} :
           k \in 0..MaxSuggestions}

\* The ways reader.read() can deliver the frames: consecutive non-empty
\* chunks.
RECURSIVE Chunkings(_)
Chunkings(sent) ==
  IF sent = <<>> THEN {<<>>}
  ELSE UNION {{<<SubSeq(sent, 1, n)>> \o rest :
                 rest \in Chunkings(SubSeq(sent, n + 1, Len(sent)))} :
                n \in 1..Len(sent)}

\* The id the backend gave the stream.
TheStreamId == 1

\* One 'data: ' line of the given event type; st is the loop's state.
ProcessLine(frame, st) ==
  LET withId ==
        IF st.streamId = Null
        THEN [st EXCEPT !.streamId = TheStreamId, !.state = "active",
                        !.calls = Append(@, "resolve")]
        ELSE st
      withSuggestion ==
        IF frame = "suggestions"
        THEN [withId EXCEPT !.calls = Append(@, "onSuggestion")]
        ELSE withId
  IN IF frame = "stream-completed"
     THEN [withSuggestion EXCEPT !.state = "completed",
                                 !.calls = Append(@, "onComplete"),
                                 !.broke = TRUE]
     ELSE withSuggestion

\* for (const line of lines): the lines of one chunk, until a break.
RECURSIVE ProcessLines(_, _)
ProcessLines(lines, st) ==
  IF lines = <<>> \/ st.broke THEN st
  ELSE ProcessLines(Tail(lines), ProcessLine(Head(lines), st))

\* streamSuggestions: the request succeeds and processStream starts.
StreamSuggestionsStart ==
  /\ rdPc = "idle"
  /\ rdPc' = "reading"
  /\ \E out \in ServerOutputs : rdChunks' \in Chunkings(out)
  /\ UNCHANGED <<rdStreamId, rdState, rdCalls>>
  /\ UNCHANGED <<backVars, effectVars, boardVars, cacheVars>>

\* streamSuggestions: fetch fails, the response is not ok or has no body.
StreamSuggestionsFails ==
  /\ rdPc = "idle"
  /\ rdPc' = "refused"
  /\ rdCalls' = rdCalls \o <<"onError", "reject">>
  /\ UNCHANGED <<rdChunks, rdStreamId, rdState>>
  /\ UNCHANGED <<backVars, effectVars, boardVars, cacheVars>>

\* reader.read() delivers a chunk; its lines are processed.  The 'break' of
\* the stream-completed branch leaves the for loop over the lines of the
\* chunk only: the while loop goes on to the next read.
ReadChunk ==
  /\ rdPc = "reading"
  /\ rdChunks # <<>>
  /\ LET st == ProcessLines(Head(rdChunks),
                            [streamId |-> rdStreamId, state |-> rdState,
                             calls |-> rdCalls, broke |-> FALSE])
     IN /\ rdStreamId' = st.streamId
        /\ rdState' = st.state
        /\ rdCalls' = st.calls
        /\ rdPc' = "reading"
  /\ rdChunks' = Tail(rdChunks)
  /\ UNCHANGED <<backVars, effectVars, boardVars, cacheVars>>

\* reader.read() reports done: the connection has closed.
ReadDone ==
  /\ rdPc = "reading"
  /\ rdChunks = <<>>
  /\ rdPc' = "ended"
  /\ rdState' = IF rdStreamId # Null THEN "completed" ELSE rdState
  /\ rdCalls' = Append(rdCalls, "onComplete")
  /\ UNCHANGED <<rdChunks, rdStreamId>>
  /\ UNCHANGED <<backVars, effectVars, boardVars, cacheVars>>

\* reader.read() rejects: the catch block.
ReadFails ==
  /\ rdPc = "reading"
  /\ rdPc' = "failed"
  /\ rdState' = IF rdStreamId # Null THEN "completed" ELSE rdState
  /\ rdCalls' = rdCalls \o <<"onError", "reject">>
  /\ UNCHANGED <<rdChunks, rdStreamId>>
  /\ UNCHANGED <<backVars, effectVars, boardVars, cacheVars>>

ReaderInit ==
  /\ PureIdle
  /\ OrchIdle
  /\ SvcIdle
  /\ SolveIdle
  /\ PoolIdle
  /\ StreamIdle
  /\ HistIdle
  /\ FrontIdle
  /\ CacheIdle

ReaderNext ==
  \/ StreamSuggestionsStart
  \/ StreamSuggestionsFails
  \/ ReadChunk
  \/ ReadDone
  \/ ReadFails

SpecReader == ReaderInit /\ [][ReaderNext]_vars

\* ------------------------------------------------------------------------
\* Claims on the stream reader (SpecReader)
\* ------------------------------------------------------------------------

\* The number of calls of one callback.
CallCount(invoked, name) ==
  Cardinality({i \in 1..Len(invoked) : invoked[i] = name})

\* C36: when streamSuggestions has finished reading a stream (one that ended
\* with a stream-completed frame or with the connection closing), onComplete
\* has been invoked exactly once and no onSuggestion call follows it.
C36_OnCompleteExactlyOnce ==
  rdPc = "ended" =>
    /\ CallCount(rdCalls, "onComplete") = 1
    /\ \A i, j \in 1..Len(rdCalls) :
         (rdCalls[i] = "onComplete" /\ rdCalls[j] = "onSuggestion") => j < i

\* ------------------------------------------------------------------------
\* SpecEffect: the App's fetch-suggestions effect, its cleanup and
\* WordleAIClient.closeStream.
\* ------------------------------------------------------------------------

\* isStreamActive: activeStreamStates holds 'active' for the stream.
isStreamActive(streams, id) == streams[id] = "open"

\* closeStream: nothing for a stream that is not active; otherwise the close
\* request is posted and the stream is marked completed.
closeStream(streams, id) ==
  IF isStreamActive(streams, id)
  THEN [streams EXCEPT ![id] = "closed"]
  ELSE streams

\* The cleanup returned by the previous effect run.
EffectCleanup(streams) ==
  IF streamIdRef # Null THEN closeStream(streams, streamIdRef) ELSE streams

\* A dependency of the effect changes (or the App mounts): the cleanup of
\* the previous run, then the effect body, which requests a new stream.
EffectRun ==
  /\ Len(efStreams) < MaxRuns
  /\ efStreams' = Append(EffectCleanup(efStreams), "requested")
  /\ UNCHANGED streamIdRef
  /\ UNCHANGED <<backVars, readerVars, boardVars, cacheVars>>

\* The first frame of stream k arrives: the stream is active, the promise of
\* streamSuggestions resolves and its .then stores the id.
StreamIdReceived(k) ==
  /\ efStreams[k] = "requested"
  /\ efStreams' = [efStreams EXCEPT ![k] = "open"]
  /\ streamIdRef' = k
  /\ UNCHANGED <<backVars, readerVars, boardVars, cacheVars>>

\* Stream k ends on its own: processStream marks it completed.
StreamCompletes(k) ==
  /\ efStreams[k] = "open"
  /\ efStreams' = [efStreams EXCEPT ![k] = "completed"]
  /\ UNCHANGED streamIdRef
  /\ UNCHANGED <<backVars, readerVars, boardVars, cacheVars>>

\* The request of stream k fails: the promise rejects, no id is stored.
StreamRequestFails(k) ==
  /\ efStreams[k] = "requested"
  /\ efStreams' = [efStreams EXCEPT ![k] = "failed"]
  /\ UNCHANGED streamIdRef
  /\ UNCHANGED <<backVars, readerVars, boardVars, cacheVars>>

EffectInit ==
  /\ PureIdle
  /\ OrchIdle
  /\ SvcIdle
  /\ SolveIdle
  /\ PoolIdle
  /\ StreamIdle
  /\ HistIdle
  /\ FrontIdle
  /\ CacheIdle

EffectNext ==
  \/ EffectRun
  \/ \E k \in 1..Len(efStreams) : StreamIdReceived(k)
  \/ \E k \in 1..Len(efStreams) : StreamCompletes(k)
  \/ \E k \in 1..Len(efStreams) : StreamRequestFails(k)

SpecEffect == EffectInit /\ [][EffectNext]_vars

\* ------------------------------------------------------------------------
\* Claims on the effect cleanup (SpecEffect)
\* ------------------------------------------------------------------------

\* C37: at most one stream of the client is open at any time: the cleanup
\* of the effect has closed the stream of the previous run, also when the
\* dependencies changed before that stream's id was received.
C37_AtMostOneOpenStream ==
  Cardinality({k \in 1..Len(efStreams) : efStreams[k] = "open"}) <= 1

\* ------------------------------------------------------------------------
\* SpecBoard: the App's global keyboard handler, handleGuessSubmit and
\* useGameState.addGuess.
\* ------------------------------------------------------------------------

\* The letter keys pressed, with and without Shift or Caps Lock.
LetterKeys == {"a", "A"}

\* e.key.toUpperCase() on a letter key.
KeyToUpperCase(key) == IF key = "a" THEN "A" ELSE key

\* selectedSuggestion: the word of the selected suggestion, or '' while
\* there is none.
SelectedSuggestions == {<<>>, <<"C", "R", "A", "N", "E">>}

\* addGuess: a new entry at the end of the history.
addGuess(history, word, feedback) ==
  Append(history, [word |-> word, colors |-> feedback])

\* handleGuessSubmit: the word with five gray tiles is added, the typed word
\* is cleared.
handleGuessSubmit(word) ==
  /\ bHistory' = addGuess(bHistory, word, [i \in 1..WordLen |-> "gray"])
  /\ bTypedWord' = <<>>
  /\ isTyping' = FALSE

\* A letter key: added to the typed word while it has fewer than 5 letters.
KeyLetter(key) ==
  /\ Len(bTypedWord) < WordLen
  /\ isTyping' = TRUE
  /\ bTypedWord' = IF isTyping
                   THEN Append(bTypedWord, KeyToUpperCase(key))
                   ELSE <<KeyToUpperCase(key)>>
  /\ UNCHANGED bHistory
  /\ UNCHANGED <<backVars, readerVars, effectVars, cacheVars>>

\* Backspace: the last typed letter is removed.
KeyBackspace ==
  /\ isTyping
  /\ bTypedWord' = SubSeq(bTypedWord, 1, Len(bTypedWord) - 1)
  /\ UNCHANGED <<isTyping, bHistory>>
  /\ UNCHANGED <<backVars, readerVars, effectVars, cacheVars>>

\* Enter: the typed word, or the selected suggestion when nothing is typed,
\* is submitted if it has 5 letters.
KeyEnter(selectedSuggestion) ==
  /\ Len(bHistory) < MaxSubmits
  /\ LET wordToSubmit == IF isTyping THEN bTypedWord ELSE selectedSuggestion
     IN /\ Len(wordToSubmit) = WordLen
        /\ handleGuessSubmit(wordToSubmit)
  /\ UNCHANGED <<backVars, readerVars, effectVars, cacheVars>>

\* Shift+Enter: the selected suggestion is submitted if it has 5 letters.
KeyShiftEnter(selectedSuggestion) ==
  /\ Len(bHistory) < MaxSubmits
  /\ Len(selectedSuggestion) = WordLen
  /\ handleGuessSubmit(selectedSuggestion)
  /\ UNCHANGED <<backVars, readerVars, effectVars, cacheVars>>

BoardInit ==
  /\ PureIdle
  /\ OrchIdle
  /\ SvcIdle
  /\ SolveIdle
  /\ PoolIdle
  /\ StreamIdle
  /\ HistIdle
  /\ FrontIdle
  /\ CacheIdle

BoardNext ==
  \/ \E sel \in SelectedSuggestions : KeyShiftEnter(sel)
  \/ \E key \in LetterKeys : KeyLetter(key)
  \/ \E sel \in SelectedSuggestions : KeyEnter(sel)
  \/ KeyBackspace

SpecBoard == BoardInit /\ [][BoardNext]_vars

\* ------------------------------------------------------------------------
\* Claims on the board (SpecBoard)
\* ------------------------------------------------------------------------

\* C38: the history never holds more than GAME_ROWS = 6 guesses: with 6
\* guesses recorded, submitting a further 5-letter word leaves the history
\* unchanged.
C38_HistoryAtMostSixGuesses == Len(bHistory) <= GAME_ROWS

\* ------------------------------------------------------------------------
\* SpecCache: CachedFilterCandidateWords of the backend.
\* ------------------------------------------------------------------------

\* Words of the lists that are filtered.
CacheWord1 == <<"A", "B", "A", "B", "A">>
CacheWord2 == <<"B", "A", "C", "A", "B">>
CacheWord3 == <<"C", "C", "A", "A", "A">>

\* The word lists passed to Filter.
CacheWordLists ==
  {<<CacheWord1, CacheWord2>>, <<CacheWord2, CacheWord3>>,
   <<CacheWord1, CacheWord2, CacheWord3>>}

\* The constraint maps passed to Filter.  A Go map is the set of its
\* (key, value) pairs; positions count from 0.
CacheConstraints ==
  {[GreenLetters |-> {}, YellowLetters |-> {}, GrayLetters |-> {}],
   [GreenLetters |-> {<<0, "A">>}, YellowLetters |-> {}, GrayLetters |-> {}],
   [GreenLetters |-> {}, YellowLetters |-> {<<"B", <<0>>>>},
    GrayLetters |-> {}],
   [GreenLetters |-> {}, YellowLetters |-> {}, GrayLetters |-> {"C"}]}

\* contains: the letter occurs in the word.
contains(word, letter) == \E i \in 1..Len(word) : word[i] = letter

\* matchesConstraints: green letters at their positions, yellow letters in
\* the word but not at their forbidden positions, no gray letter.
matchesConstraints(word, constraints) ==
  /\ \A g \in constraints.GreenLetters :
        ~(g[1] >= Len(word) \/ word[g[1] + 1] # g[2])
  /\ \A y \in constraints.YellowLetters :
        /\ contains(word, y[1])
        /\ \A k \in 1..Len(y[2]) :
             ~(y[2][k] < Len(word) /\ word[y[2][k] + 1] = y[1])
  /\ \A grayLetter \in constraints.GrayLetters : ~contains(word, grayLetter)

\* FilterCandidateWords: the words of the list that match, in list order.
FilterCandidateWords(constraints, wordList) ==
  SelectSeq(wordList, LAMBDA word : matchesConstraints(word, constraints))

\* GenerateCacheKey: the MD5 hash of the text
\* "green:<map>|yellow:<map>|gray:<map>|wordLen:<length of the list>".
\* The text holds the three maps (printed with sorted keys) and the length
\* of the word list, none of its words; two texts have the same hash only
\* if they are equal (MD5 collisions aside), so the key is the text's
\* content.
GenerateCacheKey(constraints, wordList) ==
  [green |-> constraints.GreenLetters,
   yellow |-> constraints.YellowLetters,
   gray |-> constraints.GrayLetters,
   wordLen |-> Len(wordList)]

\* The position of a key in the cache, or 0.
CacheIndex(entries, key) ==
  IF \E i \in 1..Len(entries) : entries[i].key = key
  THEN CHOOSE i \in 1..Len(entries) : entries[i].key = key
  ELSE 0

\* The entries without the one at position i.
CacheWithout(entries, i) ==
  SubSeq(entries, 1, i - 1) \o SubSeq(entries, i + 1, Len(entries))

\* lru.Cache.Get on a key that is present: the entry becomes the most
\* recently used one.
CacheGet(entries, key) ==
  LET i == CacheIndex(entries, key)
  IN Append(CacheWithout(entries, i), entries[i])

\* lru.Cache.Add: the entry becomes the most recently used one; the least
\* recently used one is evicted when the cache is over its size.
CacheAdd(entries, key, value) ==
  LET i == CacheIndex(entries, key)
      kept == IF i = 0 THEN entries ELSE CacheWithout(entries, i)
      added == Append(kept, [key |-> key, value |-> value])
  IN IF Len(added) > MaxCacheSize THEN Tail(added) ELSE added

\* CachedFilterCandidateWords.Filter.
Filter(constraints, wordList) ==
  LET key == GenerateCacheKey(constraints, wordList)
      i == CacheIndex(cache, key)
      filtered == FilterCandidateWords(constraints, wordList)
  IN IF i # 0
     THEN /\ cache' = CacheGet(cache, key)
          /\ filterCalls' =
               Append(filterCalls,
                      [constraints |-> constraints, wordList |-> wordList,
                       hit |-> TRUE, result |-> cache[i].value])
     ELSE /\ cache' = CacheAdd(cache, key, filtered)
          /\ filterCalls' =
               Append(filterCalls,
                      [constraints |-> constraints, wordList |-> wordList,
                       hit |-> FALSE, result |-> filtered])

\* A caller filters a word list.
FilterCall ==
  /\ Len(filterCalls) < MaxFilterCalls
  /\ \E constraints \in CacheConstraints, wordList \in CacheWordLists :
        Filter(constraints, wordList)
  /\ UNCHANGED <<backVars, frontVars>>

CacheInit ==
  /\ PureIdle
  /\ OrchIdle
  /\ SvcIdle
  /\ SolveIdle
  /\ PoolIdle
  /\ StreamIdle
  /\ HistIdle
  /\ FrontIdle
  /\ CacheIdle

CacheNext == FilterCall

SpecCache == CacheInit /\ [][CacheNext]_vars

\* ------------------------------------------------------------------------
\* Claims on the cached filter (SpecCache)
\* ------------------------------------------------------------------------

\* C39: every Filter call returns the words that the uncached
\* FilterCandidateWords returns for the same constraint map and word list,
\* whatever calls came before it.
C39_CachedFilterEqualsUncached ==
  \A c \in 1..Len(filterCalls) :
    filterCalls[c].result =
      FilterCandidateWords(filterCalls[c].constraints,
                           filterCalls[c].wordList)

=============================================================================
